---- MODULE Spec2Model ----
(***************************************************************************)
(* Client-side state synchronisation of the ToDo front end: the task store *)
(* (src/src/store/index.ts, second snapshot, lines 849-1879), the API      *)
(* client (src/src/lib/api.ts) and the checkpoint storage                  *)
(* (src/unnamed/part_012), together with the remote authority they talk to.*)
(***************************************************************************)
EXTENDS Integers, Sequences, FiniteSets, Bags, TLC

\* ------------------------------------------------------------------ bounds
MaxClock == 3       \* server timestamps are 1..MaxClock
MaxVersion == 3     \* record versions are 1..MaxVersion
MaxInflight == 2    \* HTTP requests in flight at once
MaxLocal == 2       \* merge inputs: length of the local collection
MaxUpd == 2         \* merge inputs: length of updatedTasks
MaxDel == 2         \* merge inputs: length of deletedTasks
MaxListeners == 3   \* callbacks that can be registered for a topic
MaxBodyOps == 2     \* register/unregister calls one listener run makes
MaxExpiry == 2      \* session expiry times are 1..MaxExpiry
MaxWatchdogs == 2   \* checkAuth watchdog timers pending at once
MaxSyncTimers == 2  \* post-login sync timers pending at once
MaxLeakedTimers == 1  \* session timers pending when a teardown step throws

Ids == {"a", "b"}
IdOrder == <<"a", "b">>

\* ------------------------------------------------------- checkpoint values
\* localStorage.getItem returns null when the key is absent.
NoCheckpoint == -1
\* localStorage.setItem(key, undefined) stores the string "undefined".
UndefinedStamp == -2
\* new Date(Date.now() - 60 * 60 * 1000): earlier than every change the
\* bounded server history holds.
OneHourAgo == 0

IsTimestamp(t) == t >= 1

\* ------------------------------------------------------------ HTTP results
NetworkError == 0       \* fetch threw: error.code 0
TimeoutError == 408     \* AbortError after 10 s: error.code 408
NoCode == -1            \* ApiResponse.error is undefined
Suppressed == -3        \* request() returned before fetch: isLoggingOut

Task(i, v) == [id |-> i, version |-> v]
TaskSet == [id : Ids, version : 1..MaxVersion]

SeqsUpTo(S, n) == UNION {[1..k -> S] : k \in 0..n}

\* ------------------------------------------------------------ delta merge
\* updatedTasks.findIndex(task => task.id === id): first match, 0 if none
\* (the code's -1).
FindIndex(ts, id) ==
    IF \E i \in 1..Len(ts) : ts[i].id = id
    THEN CHOOSE i \in 1..Len(ts) :
            /\ ts[i].id = id
            /\ \A j \in 1..(i - 1) : ts[j].id # id
    ELSE 0

\* Upsert without the findIndex lookup: every updated task is pushed.
UpsertAlwaysPushes(ts, u) == Append(ts, u)

\* Upsert that leaves a task already in the collection as it is.
UpsertKeepsExisting(ts, u) ==
    IF \E i \in 1..Len(ts) : ts[i].id = u.id THEN ts ELSE Append(ts, u)

\* One iteration of syncData.updatedTasks.forEach.
Upsert(ts, u) ==
    IF FindIndex(ts, u.id) >= 1
    THEN [ts EXCEPT ![FindIndex(ts, u.id)] = u]
    ELSE Append(ts, u)

RECURSIVE UpsertAll(_, _)
UpsertAll(ts, upd) ==
    IF upd = <<>> THEN ts
    ELSE UpsertAll(Upsert(ts, Head(upd)), Tail(upd))

\* updatedTasks.filter(task => task.id !== deletedTask.id)
RemoveId(ts, id) == SelectSeq(ts, LAMBDA t : t.id # id)

RECURSIVE RemoveAll(_, _)
RemoveAll(ts, del) ==
    IF del = <<>> THEN ts
    ELSE RemoveAll(RemoveId(ts, Head(del)), Tail(del))

\* The merge with its two loops swapped: deletions, then upserts.
applySyncDataDeletesFirst(ts, upd, del) == UpsertAll(RemoveAll(ts, del), upd)

\* useTaskStore.applySyncData: upserts in response order, then deletions.
applySyncData(ts, upd, del) == RemoveAll(UpsertAll(ts, upd), del)

SeqIds(ts) == {ts[i].id : i \in 1..Len(ts)}
SeqElems(s) == {s[i] : i \in 1..Len(s)}

VARIABLES
    tasks,              \* useTaskStore.tasks
    checkpoint,         \* localStorage 'lastSyncTimestamp'
    isAuthenticated,    \* useAuthStore.isAuthenticated
    isLoggingOut,       \* useAuthStore.isLoggingOut
    srv,                \* remote authority: the records it holds
    clock,              \* remote authority: its current timestamp
    srvSession,         \* remote authority: the session cookie is valid
    net,                \* apiClient calls awaiting their continuation
    mTasks,     \* merge check: the local collection the merge starts from
    mUpd,       \* merge check: syncData.updatedTasks
    mDel,       \* merge check: syncData.deletedTasks (ids)
    mOut        \* merge check: collection after each successive application

VARIABLES
    cleanupFunctions,   \* store module: the unregister closures it holds
    wsHandlers,         \* the client's Sets: callbacks the store registered
    pendingOn,          \* ensureWebSocketInitialized().then(...) not yet run
    setupCalls          \* calls of setupWebSocketHandlers made so far

hvars == <<cleanupFunctions, wsHandlers, pendingOn, setupCalls>>

VARIABLES
    now,                \* Date.now()
    lastRefreshTime,    \* AuthProvider effect: let lastRefreshTime
    activityTimeout,    \* AuthProvider effect: activityTimeout is not null
    effectDeps,         \* the dependency values the mounted effect ran with
    refreshLog          \* times at which handleActivity called refreshSession

avars == <<now, lastRefreshTime, activityTimeout, effectDeps, refreshLog>>

\* Variables of the stand-alone checks; the store's actions leave them alone.
mvars == <<mTasks, mUpd, mDel, mOut, hvars, avars>>
cvars == <<tasks, checkpoint, isAuthenticated, isLoggingOut>>
svars == <<srv, clock, srvSession>>

VARIABLES
    wsConnected,        \* socket.connected
    wsOpening,          \* the channel's connection attempt: none/open/aborted
    reconnectAttempts,  \* WebSocketClient.reconnectAttempts
    reconnectTimeout,   \* WebSocketClient.reconnectTimeout and its timer
    isDisconnecting,    \* WebSocketClient.isDisconnecting
    heartbeatInterval,  \* WebSocketClient.heartbeatInterval is set
    pendingUserRoom,    \* WebSocketClient.pendingUserRoom ("" for null)
    wsEmitted,          \* what the last step sent with socket.emit
    wsEvent,            \* the handler or method the last step ran
    wsClosed,           \* disconnect() was called, connect() not since
    userRoomJoined,     \* room of the last joinUserRoom not yet left
    dropDelays          \* delays scheduled by consecutive peer closures

wsvars == <<wsConnected, wsOpening, reconnectAttempts, reconnectTimeout,
            isDisconnecting, heartbeatInterval, pendingUserRoom, wsEmitted,
            wsEvent, wsClosed, userRoomJoined, dropDelays>>

VARIABLES
    eventListeners,     \* eventListeners.get(topic): the Set, in its order
    emitting,           \* emit(topic, data): its forEach is under way
    emitPos,            \* forEach: entries of the Set it has passed
    emitDetached,       \* forEach: its Set is no longer the map's entry
    running,            \* the callback being invoked (0: none)
    bodyOps,            \* calls the running callback has made
    emitSnapshot,       \* the Set's entries when the forEach started
    invoked,            \* callbacks this forEach has invoked
    revoked,            \* callbacks unregistered since their last on()
    dropped             \* callbacks unregistered while this forEach ran

edvars == <<eventListeners, emitting, emitPos, emitDetached, running,
            bodyOps, emitSnapshot, invoked, revoked, dropped>>

rtvars == <<wsvars, edvars>>

VARIABLES
    sessionTimeout,     \* useAuthStore.sessionTimeout: timer id, 0 for null
    sessionExpiryTime,  \* useAuthStore.sessionExpiryTime, 0 for null
    pendingTimers,      \* session-expiry timers set and not fired or cleared
    isLoading,          \* useAuthStore.isLoading
    orphanWatchdogs     \* pending watchdogs of checkAuth calls that returned

stvars == <<sessionTimeout, sessionExpiryTime, pendingTimers, isLoading,
            orphanWatchdogs>>

VARIABLES
    wsClient,           \* websocket.ts: the module's wsClient is not null
    pageHidden,         \* document.hidden
    retiredOpen,        \* sockets of replaced clients still open
    syncTimers,         \* pending setTimeout(syncTasks, 1000) timers
    logoutAwaiting      \* a logout() is suspended in apiClient.logout()

lcvars == <<wsClient, pageHidden, retiredOpen, syncTimers, logoutAwaiting>>

vars == <<tasks, checkpoint, isAuthenticated, isLoggingOut,
          srv, clock, srvSession, net, mTasks, mUpd, mDel, mOut, rtvars,
          stvars, lcvars, hvars, avars>>

\* ------------------------------------------------------ request records
\* phase "sent": fetch is pending; phase "answered": request() has resolved
\* and the caller's continuation has not run yet.
BlankReq ==
    [phase |-> "sent", kind |-> "none", id |-> "-", since |-> 0,
     ifMatch |-> 0, read |-> 0, status |-> 0, json |-> FALSE, ts |-> 0,
     items |-> <<>>, deleted |-> <<>>, stale |-> FALSE, applied |-> FALSE,
     expiry |-> 0, retry |-> 0, wd |-> FALSE]

Pending == BagToSet(net)
HasFreeSlot == BagCardinality(net) < MaxInflight
Put(r) == net' = net (+) SetToBag({r})
Replace(r, q) == net' = (net (-) SetToBag({r})) (+) SetToBag({q})
Take(r) == net' = net (-) SetToBag({r})

Writes == {"update", "mutate"}

\* ----------------------------------------------------- ApiClient.request
\* request() entered: while isLoggingOut is set it resolves with
\* { data: undefined } and nothing is sent, otherwise fetch(url) goes out.
\* A request() without the isLoggingOut test.
RequestNeverSuppressed(loggingOut) == FALSE

\* request()'s first statement: `if (isLoggingOut) return { data: undefined }`.
RequestSuppressed(loggingOut) == loggingOut

request(kind, id, since, ifMatch, read) ==
    Put(IF RequestSuppressed(isLoggingOut)
        THEN [BlankReq EXCEPT !.phase = "answered", !.kind = kind,
                              !.status = Suppressed]
        ELSE [BlankReq EXCEPT !.kind = kind, !.id = id, !.since = since,
                              !.ifMatch = ifMatch, !.read = read])

\* What request() makes of an HTTP status: data is set on 2xx only.
RequestHasData(status) == status = 200

\* ApiResponse.error.code: the status, or 0 when fetch threw; a 401 on a
\* task endpoint and a suppressed request return no error at all.
RequestErrCode(status) ==
    IF status \in {200, 401, Suppressed} THEN NoCode ELSE status

\* "For other 401 errors, trigger logout".
RequestCallsLogout(status) == status = 401

\* ---------------------------------------------------------- SyncStorage
\* SyncStorage.getInitialSyncTimestamp: the stored value, or one hour ago
\* when nothing is stored.
getInitialSyncTimestamp(stored) ==
    IF stored # NoCheckpoint THEN stored ELSE OneHourAgo

\* SyncStorage.setLastSyncTimestamp(response.data.currentTimestamp): the
\* body {} of an unparseable 2xx answer has no currentTimestamp.
setLastSyncTimestamp(stored, r) ==
    IF r.json THEN r.ts ELSE UndefinedStamp

\* ---------------------------------------------------- WebSocketClient
\* The constructor's defaults (websocket.ts:34-40).
maxReconnectAttempts == 5
reconnectDelay == 1000

\* The largest delay attemptReconnect can compute: that of the last
\* attempt it allows.
MaxBackoff == reconnectDelay * 2^(maxReconnectAttempts - 1)

NoRoom == ""
UserIds == {"", "u1"}
\* The id of the user who logs in.
CurrentUserId == "u1"
UserRoom(userId) == "user:" \o userId

JoinMsg(room) == [ev |-> "join", room |-> room]
LeaveMsg(room) == [ev |-> "leave", room |-> room]
HeartbeatMsg == [ev |-> "heartbeat", room |-> NoRoom]

\* Reasons socket.io gives the 'disconnect' event of a connection that
\* the client did not close itself.
PeerClosed == "io server disconnect"
TransportReasons == {"transport close", "ping timeout"}
DropReasons == {PeerClosed} \cup TransportReasons

NoTimer == [handle |-> FALSE, armed |-> FALSE, delay |-> 0]

\* A backoff that grows by the base delay per attempt.
BackoffLinear(attempts) == reconnectDelay * (attempts + 1)

\* attemptReconnect: reconnectDelay * Math.pow(2, reconnectAttempts), read
\* before the counter is incremented.
BackoffDelay(attempts) == reconnectDelay * 2^attempts

\* A connect handler that leaves the counter as it is.
AttemptsKeptOnConnect(attempts) == attempts

\* 'connect' handler: this.reconnectAttempts = 0.
AttemptsAfterConnect(attempts) == 0

\* 'disconnect' handler: attemptReconnect is called for the reason
\* 'io server disconnect' only.
ReconnectsOnDrop(reason) == reason = PeerClosed

\* attemptReconnect gives up once the counter has reached the maximum.
MayReconnect == reconnectAttempts < maxReconnectAttempts

\* attemptReconnect(): the caller says whether it runs in this step.
attemptReconnect(called) ==
    IF called /\ MayReconnect
    THEN /\ reconnectTimeout' = [handle |-> TRUE, armed |-> TRUE,
                                 delay |-> BackoffDelay(reconnectAttempts)]
         /\ reconnectAttempts' = reconnectAttempts + 1
    ELSE UNCHANGED <<reconnectTimeout, reconnectAttempts>>

Event(op, arg) == [op |-> op, arg |-> arg]

\* A connect handler that joins the default rooms only.
JoinsOnConnectDefaultOnly(pending) ==
    <<JoinMsg("board:all"), JoinMsg("global:all")>>

\* 'connect' handler: joinDefaultRooms(), then the pending user room if
\* one is stored.
JoinsOnConnect(pending) ==
    <<JoinMsg("board:all"), JoinMsg("global:all")>>
        \o (IF pending # NoRoom THEN <<JoinMsg(pending)>> ELSE <<>>)

\* connect(): socket.connect() unless the socket is connected; the promise
\* and the isConnecting flag are back to their idle values when it returns.
connectCall ==
    wsOpening' = IF wsConnected THEN wsOpening ELSE "open"

\* client.connect() as the store calls it after login or checkAuth.
wsConnect ==
    /\ ~wsConnected /\ wsOpening # "open"
    /\ connectCall
    /\ wsEmitted' = <<>>
    /\ dropDelays' = <<>>
    /\ UNCHANGED <<wsConnected, reconnectAttempts, reconnectTimeout,
                   isDisconnecting, heartbeatInterval, pendingUserRoom,
                   userRoomJoined>>
    /\ wsEvent' = Event("connect()", "")
    /\ wsClosed' = FALSE
    /\ UNCHANGED <<cvars, svars, net, mvars, edvars, stvars>>
    /\ UNCHANGED lcvars

\* socket 'connect' event.
onConnect ==
    /\ wsOpening = "open"
    /\ wsConnected' = TRUE
    /\ wsOpening' = "none"
    /\ reconnectAttempts' = AttemptsAfterConnect(reconnectAttempts)
    /\ heartbeatInterval' = TRUE
    /\ wsEmitted' = JoinsOnConnect(pendingUserRoom)
    /\ pendingUserRoom' = NoRoom
    /\ UNCHANGED <<reconnectTimeout, isDisconnecting, userRoomJoined,
                   dropDelays>>
    /\ wsEvent' = Event("connect", "")
    /\ UNCHANGED wsClosed
    /\ UNCHANGED <<cvars, svars, net, mvars, edvars, stvars>>
    /\ UNCHANGED lcvars

\* socket 'disconnect' event of a connection the client did not close.
\* After a transport failure the channel may start an attempt of its own
\* (io() is created without reconnection: false).
onDisconnect(reason) ==
    /\ wsConnected
    /\ wsConnected' = FALSE
    /\ heartbeatInterval' = FALSE
    /\ attemptReconnect(~isDisconnecting /\ ReconnectsOnDrop(reason))
    /\ wsOpening' \in IF reason \in TransportReasons
                      THEN {"none", "open"} ELSE {"none"}
    /\ dropDelays' =
          IF reason = PeerClosed /\ ~isDisconnecting /\ MayReconnect
          THEN (IF dropDelays = <<>> THEN <<>>
                ELSE <<dropDelays[Len(dropDelays)]>>)
                   \o <<BackoffDelay(reconnectAttempts)>>
          ELSE <<>>
    /\ wsEmitted' = <<>>
    /\ UNCHANGED <<isDisconnecting, pendingUserRoom, userRoomJoined>>
    /\ wsEvent' = Event("disconnect", reason)
    /\ UNCHANGED wsClosed
    /\ UNCHANGED <<cvars, svars, net, mvars, edvars, stvars>>
    /\ UNCHANGED lcvars

\* socket 'connect_error' event of the attempt in progress.
onConnectError ==
    /\ wsOpening = "open"
    /\ wsOpening' \in {"none", "open"}
    /\ attemptReconnect(TRUE)
    /\ dropDelays' = <<>>
    /\ wsEmitted' = <<>>
    /\ UNCHANGED <<wsConnected, isDisconnecting, heartbeatInterval,
                   pendingUserRoom, userRoomJoined>>
    /\ wsEvent' = Event("connect_error", "")
    /\ UNCHANGED wsClosed
    /\ UNCHANGED <<cvars, svars, net, mvars, edvars, stvars>>
    /\ UNCHANGED lcvars

\* A 'connect_error' event delivered for an attempt the client has
\* abandoned with disconnect(): the handler is the same.
onStaleConnectError ==
    /\ wsOpening = "aborted"
    /\ wsOpening' = "none"
    /\ attemptReconnect(TRUE)
    /\ dropDelays' = <<>>
    /\ wsEmitted' = <<>>
    /\ UNCHANGED <<wsConnected, isDisconnecting, heartbeatInterval,
                   pendingUserRoom, userRoomJoined>>
    /\ wsEvent' = Event("connect_error", "")
    /\ UNCHANGED wsClosed
    /\ UNCHANGED <<cvars, svars, net, mvars, edvars, stvars>>
    /\ UNCHANGED lcvars

\* The reconnect timer fires: this.connect(). The handle stays stored.
reconnectTimerFires ==
    /\ reconnectTimeout.armed
    /\ reconnectTimeout' = [reconnectTimeout EXCEPT !.armed = FALSE]
    /\ connectCall
    /\ wsEmitted' = <<>>
    /\ UNCHANGED <<wsConnected, reconnectAttempts, isDisconnecting,
                   heartbeatInterval, pendingUserRoom, userRoomJoined,
                   dropDelays>>
    /\ wsEvent' = Event("reconnectTimeout", "")
    /\ UNCHANGED wsClosed
    /\ UNCHANGED <<cvars, svars, net, mvars, edvars, stvars>>
    /\ UNCHANGED lcvars

\* A disconnect() that leaves an attempt in progress running.
SocketKeptOnDisconnect(opening) == opening

\* socket.disconnect(): a connected socket is closed, an attempt in
\* progress is abandoned.
SocketAfterDisconnect(opening) ==
    IF opening = "open" THEN "aborted" ELSE opening

\* disconnect(): the 'disconnect' event with reason 'io client disconnect'
\* that socket.disconnect() raises on a connected socket runs inside the
\* call and returns at the isDisconnecting test.
wsDisconnect ==
    /\ isDisconnecting' = TRUE
    /\ heartbeatInterval' = FALSE
    /\ reconnectTimeout' =
          IF reconnectTimeout.handle THEN NoTimer ELSE reconnectTimeout
    /\ wsConnected' = FALSE
    /\ wsOpening' = SocketAfterDisconnect(wsOpening)
    /\ dropDelays' = <<>>
    /\ wsEmitted' = <<>>
    /\ UNCHANGED <<reconnectAttempts, pendingUserRoom, userRoomJoined>>
    /\ wsEvent' = Event("disconnect()", "")
    /\ wsClosed' = TRUE
    /\ UNCHANGED <<cvars, svars, net, mvars, edvars, stvars>>
    /\ UNCHANGED lcvars

\* joinUserRoom(userId)
joinUserRoom(userId) ==
    /\ IF userId = ""
       THEN /\ wsEmitted' = <<>>
            /\ UNCHANGED <<pendingUserRoom, userRoomJoined>>
       ELSE /\ userRoomJoined' = UserRoom(userId)
            /\ IF wsConnected
               THEN /\ wsEmitted' = <<JoinMsg(UserRoom(userId))>>
                    /\ UNCHANGED pendingUserRoom
               ELSE /\ wsEmitted' = <<>>
                    /\ pendingUserRoom' = UserRoom(userId)
    /\ UNCHANGED <<wsConnected, wsOpening, reconnectAttempts,
                   reconnectTimeout, isDisconnecting, heartbeatInterval,
                   dropDelays>>
    /\ wsEvent' = Event("joinUserRoom", userId)
    /\ UNCHANGED wsClosed
    /\ UNCHANGED <<cvars, svars, net, mvars, edvars, stvars>>
    /\ UNCHANGED lcvars

\* leaveUserRoom(userId)
leaveUserRoom(userId) ==
    /\ userRoomJoined # NoRoom
    /\ IF userId = "" \/ ~wsConnected
       THEN wsEmitted' = <<>>
       ELSE wsEmitted' = <<LeaveMsg(UserRoom(userId))>>
    /\ userRoomJoined' = IF userId = "" THEN userRoomJoined ELSE NoRoom
    /\ UNCHANGED <<wsConnected, wsOpening, reconnectAttempts,
                   reconnectTimeout, isDisconnecting, heartbeatInterval,
                   pendingUserRoom, dropDelays>>
    /\ wsEvent' = Event("leaveUserRoom", userId)
    /\ UNCHANGED wsClosed
    /\ UNCHANGED <<cvars, svars, net, mvars, edvars, stvars>>
    /\ UNCHANGED lcvars

\* The heartbeat interval elapses (startHeartbeat's callback).
heartbeatTick ==
    /\ heartbeatInterval
    /\ wsEmitted' = IF wsConnected THEN <<HeartbeatMsg>> ELSE <<>>
    /\ UNCHANGED <<wsConnected, wsOpening, reconnectAttempts,
                   reconnectTimeout, isDisconnecting, heartbeatInterval,
                   pendingUserRoom, userRoomJoined, dropDelays>>
    /\ wsEvent' = Event("heartbeat", "")
    /\ UNCHANGED wsClosed
    /\ UNCHANGED <<cvars, svars, net, mvars, edvars, stvars>>
    /\ UNCHANGED lcvars

\* visibilitychange with document.hidden: handlePageHidden() stops the
\* heartbeat. cleanup() removes the listener.
pageHides ==
    /\ ~pageHidden
    /\ pageHidden' = TRUE
    /\ heartbeatInterval' = IF wsClient THEN FALSE ELSE heartbeatInterval
    /\ wsEmitted' = <<>>
    /\ wsEvent' = Event("visibilitychange", "hidden")
    /\ UNCHANGED <<wsConnected, wsOpening, reconnectAttempts,
                   reconnectTimeout, isDisconnecting, pendingUserRoom,
                   wsClosed, userRoomJoined, dropDelays>>
    /\ UNCHANGED <<wsClient, retiredOpen, syncTimers, logoutAwaiting>>
    /\ UNCHANGED <<cvars, svars, net, mvars, edvars, stvars>>

\* visibilitychange with the page visible again: handlePageVisible()
\* starts the heartbeat if the socket is connected.
pageShows ==
    /\ pageHidden
    /\ pageHidden' = FALSE
    /\ heartbeatInterval' =
          IF wsClient /\ wsConnected THEN TRUE ELSE heartbeatInterval
    /\ wsEmitted' = <<>>
    /\ wsEvent' = Event("visibilitychange", "visible")
    /\ UNCHANGED <<wsConnected, wsOpening, reconnectAttempts,
                   reconnectTimeout, isDisconnecting, pendingUserRoom,
                   wsClosed, userRoomJoined, dropDelays>>
    /\ UNCHANGED <<wsClient, retiredOpen, syncTimers, logoutAwaiting>>
    /\ UNCHANGED <<cvars, svars, net, mvars, edvars, stvars>>

\* The client after construction and initialize(): a socket that has not
\* been asked to connect.
WsInit ==
    /\ wsConnected = FALSE
    /\ wsOpening = "none"
    /\ reconnectAttempts = 0
    /\ reconnectTimeout = NoTimer
    /\ isDisconnecting = FALSE
    /\ heartbeatInterval = FALSE
    /\ pendingUserRoom = NoRoom
    /\ wsEmitted = <<>>
    /\ wsEvent = Event("initialize()", "")
    /\ wsClosed = FALSE
    /\ userRoomJoined = NoRoom
    /\ dropDelays = <<>>

\* ------------------------------ the module's client and its lifecycle
\* The fields of one WebSocketClient and of its socket.
CurrentClient ==
    [connected |-> wsConnected, opening |-> wsOpening,
     attempts |-> reconnectAttempts, timer |-> reconnectTimeout,
     disconnecting |-> isDisconnecting, heartbeat |-> heartbeatInterval,
     pending |-> pendingUserRoom]

\* new WebSocketClient() followed by initialize().
FreshClient ==
    [connected |-> FALSE, opening |-> "none", attempts |-> 0,
     timer |-> NoTimer, disconnecting |-> FALSE, heartbeat |-> FALSE,
     pending |-> NoRoom]

SetClient(c) ==
    /\ wsConnected' = c.connected
    /\ wsOpening' = c.opening
    /\ reconnectAttempts' = c.attempts
    /\ reconnectTimeout' = c.timer
    /\ isDisconnecting' = c.disconnecting
    /\ heartbeatInterval' = c.heartbeat
    /\ pendingUserRoom' = c.pending

\* A socket is open while it is connected or connecting.
SocketOpen(c) == c.connected \/ c.opening = "open"

\* c.connect(): socket.connect() unless the socket is connected.
ConnectOn(c) ==
    [c EXCEPT !.opening = IF c.connected THEN @ ELSE "open"]

\* c.joinUserRoom(userId): emitted at once when connected, stored if not.
JoinOn(c, userId) ==
    IF userId = "" \/ c.connected THEN c
    ELSE [c EXCEPT !.pending = UserRoom(userId)]

\* c.disconnect()
DisconnectOn(c) ==
    [c EXCEPT !.disconnecting = TRUE, !.heartbeat = FALSE,
              !.timer = IF @.handle THEN NoTimer ELSE @,
              !.connected = FALSE,
              !.opening = SocketAfterDisconnect(@)]

\* ensureWebSocketInitialized(), up to its `await wsClient.connect()`: the
\* module's client, constructed and initialized first if there is none,
\* after connect() has been called on it.
EnsuredClient ==
    ConnectOn(IF wsClient THEN CurrentClient ELSE FreshClient)

\* ensureWebSocketInitialized() as AuthProvider and the task store call it.
ensureWebSocketInitialized ==
    /\ SetClient(EnsuredClient)
    /\ wsClient' = TRUE
    /\ wsEmitted' = <<>>
    /\ wsEvent' = Event("connect()", "")
    /\ wsClosed' = FALSE
    /\ dropDelays' = <<>>
    /\ userRoomJoined' = IF wsClient THEN userRoomJoined ELSE NoRoom
    /\ UNCHANGED <<pageHidden, retiredOpen, syncTimers, logoutAwaiting>>
    /\ UNCHANGED <<cvars, svars, net, mvars, edvars, stvars>>

\* What login, signup and checkAuth do with the channel once the user is
\* set: ensureWebSocketInitialized().then(client => { client.connect();
\* client.joinUserRoom(user.id); setTimeout(syncTasks, 1000) }).
ChannelSetup(userId) ==
    /\ SetClient(JoinOn(EnsuredClient, userId))
    /\ wsClient' = TRUE
    /\ wsEmitted' = IF EnsuredClient.connected
                    THEN <<JoinMsg(UserRoom(userId))>> ELSE <<>>
    /\ wsEvent' = Event("joinUserRoom", userId)
    /\ wsClosed' = FALSE
    /\ dropDelays' = <<>>
    /\ userRoomJoined' = UserRoom(userId)
    /\ syncTimers' = syncTimers + 1
    /\ UNCHANGED <<edvars, pageHidden, retiredOpen>>

\* What logout() does with the channel. With a user it calls
\* ensureWebSocketInitialized().then(client => { client.leaveUserRoom(id);
\* client.disconnect() }) and, in the same turn, resetWebSocketClient():
\* the reset runs before ensureWebSocketInitialized returns, which then
\* returns the module's wsClient, null by now, and the callback throws on
\* it; a client constructed by this call is reset before connect() is
\* called on it. When the reset throws instead, the callback gets the
\* client.
ChannelTeardown(hasUser, resetThrows) ==
    LET c == IF ~hasUser THEN CurrentClient
             ELSE IF wsClient \/ resetThrows THEN EnsuredClient
             ELSE FreshClient
        resets == ~resetThrows /\ (wsClient \/ hasUser)
        leaves == resetThrows /\ hasUser /\ c.connected
        closes == resets \/ (resetThrows /\ hasUser)
    IN  /\ SetClient(IF closes THEN DisconnectOn(c) ELSE c)
        /\ wsClient' = IF resets THEN FALSE ELSE (wsClient \/ hasUser)
        /\ retiredOpen' =
              retiredOpen
                 + (IF resets /\ SocketOpen(DisconnectOn(c)) THEN 1 ELSE 0)
        /\ eventListeners' = IF resets THEN <<>> ELSE eventListeners
        /\ wsEmitted' = IF leaves THEN <<LeaveMsg(UserRoom(CurrentUserId))>>
                        ELSE <<>>
        /\ wsEvent' = Event(IF resets THEN "cleanup()" ELSE "disconnect()",
                            "")
        /\ wsClosed' = (closes \/ wsClosed)
        /\ dropDelays' = <<>>
        /\ userRoomJoined' = IF closes THEN NoRoom ELSE userRoomJoined
        /\ UNCHANGED <<emitting, emitPos, emitDetached, running, bodyOps,
                       emitSnapshot, invoked, revoked, dropped>>

\* ------------------------------------- WebSocketClient: on and emit
\* The callbacks registered for one topic are numbered 1..MaxListeners.
Listeners == 1..MaxListeners
NoListener == 0

IndexOf(seq, l) == CHOOSE i \in 1..Len(seq) : seq[i] = l
Without(seq, l) == SelectSeq(seq, LAMBDA x : x # l)

\* Set.add: a callback already in the Set keeps its place.
SetAdd(seq, l) == IF l \in SeqElems(seq) THEN seq ELSE Append(seq, l)

\* A forEach over a copy of the Set taken when emit started.
IterationOverSnapshot(live, snapshot) == snapshot

\* listeners.forEach(callback => ...): Set.prototype.forEach walks the
\* Set itself, so it skips entries deleted before their turn and reaches
\* entries added while it runs.
IterationSource(live, snapshot) == live

\* An unregister handle exists for every callback on() was called with:
\* those registered now and those unregistered since.
HasHandle(l) == l \in SeqElems(eventListeners) \/ l \in revoked

\* on(event, callback): eventListeners.get(event).add(callback)
Register(l) ==
    /\ eventListeners' = SetAdd(eventListeners, l)
    /\ revoked' = revoked \ {l}
    /\ UNCHANGED dropped

\* The function on() returned: listeners.delete(callback), and the map
\* entry is deleted with the last callback. A forEach that has passed the
\* deleted entry is one entry further back in what is left.
Unregister(l) ==
    /\ eventListeners' = Without(eventListeners, l)
    /\ revoked' = revoked \cup {l}
    /\ dropped' = IF emitting THEN dropped \cup {l} ELSE dropped
    /\ emitPos' = IF /\ emitting /\ ~emitDetached
                     /\ l \in SeqElems(eventListeners)
                     /\ IndexOf(eventListeners, l) <= emitPos
                  THEN emitPos - 1 ELSE emitPos
    /\ emitDetached' = (emitDetached \/
                          (emitting /\ Without(eventListeners, l) = <<>>
                                    /\ eventListeners # <<>>))

\* on(topic, callback) called from outside a delivery.
on(l) ==
    /\ ~emitting
    /\ Register(l)
    /\ UNCHANGED <<emitting, emitPos, emitDetached, running, bodyOps,
                   emitSnapshot, invoked>>
    /\ UNCHANGED <<cvars, svars, net, mvars, wsvars, stvars>>
    /\ UNCHANGED lcvars

\* An unregister handle called from outside a delivery.
unregister(l) ==
    /\ ~emitting
    /\ HasHandle(l)
    /\ Unregister(l)
    /\ UNCHANGED <<emitting, running, bodyOps, emitSnapshot, invoked>>
    /\ UNCHANGED <<cvars, svars, net, mvars, wsvars, stvars>>
    /\ UNCHANGED lcvars

\* emit(topic, data) up to its forEach; it returns at once when the topic
\* has no listeners.
emit ==
    /\ ~emitting
    /\ eventListeners # <<>>
    /\ emitting' = TRUE
    /\ emitPos' = 0
    /\ emitDetached' = FALSE
    /\ emitSnapshot' = eventListeners
    /\ invoked' = {}
    /\ dropped' = {}
    /\ UNCHANGED <<eventListeners, running, bodyOps, revoked>>
    /\ UNCHANGED <<cvars, svars, net, mvars, wsvars, stvars>>
    /\ UNCHANGED lcvars

\* The forEach has entries left to visit.
HasNext ==
    /\ ~emitDetached
    /\ emitPos < Len(IterationSource(eventListeners, emitSnapshot))

\* forEach calls the next callback.
invokeNext ==
    /\ emitting /\ running = NoListener
    /\ HasNext
    /\ LET l == IterationSource(eventListeners, emitSnapshot)[emitPos + 1]
       IN  /\ running' = l
           /\ invoked' = invoked \cup {l}
    /\ emitPos' = emitPos + 1
    /\ UNCHANGED <<eventListeners, emitting, emitDetached, emitSnapshot,
                   bodyOps, revoked, dropped>>
    /\ UNCHANGED <<cvars, svars, net, mvars, wsvars, stvars>>
    /\ UNCHANGED lcvars

\* The running callback registers a callback for the topic.
listenerRegisters(l) ==
    /\ running # NoListener
    /\ bodyOps < MaxBodyOps
    /\ Register(l)
    /\ bodyOps' = bodyOps + 1
    /\ UNCHANGED <<emitting, emitPos, emitDetached, running, emitSnapshot,
                   invoked>>
    /\ UNCHANGED <<cvars, svars, net, mvars, wsvars, stvars>>
    /\ UNCHANGED lcvars

\* The running callback calls an unregister handle.
listenerUnregisters(l) ==
    /\ running # NoListener
    /\ bodyOps < MaxBodyOps
    /\ HasHandle(l)
    /\ Unregister(l)
    /\ bodyOps' = bodyOps + 1
    /\ UNCHANGED <<emitting, running, emitSnapshot, invoked>>
    /\ UNCHANGED <<cvars, svars, net, mvars, wsvars, stvars>>
    /\ UNCHANGED lcvars

\* The running callback returns or throws; the throw is caught inside the
\* forEach callback.
listenerEnds(threw) ==
    /\ running # NoListener
    /\ running' = NoListener
    /\ bodyOps' = 0
    /\ UNCHANGED <<eventListeners, emitting, emitPos, emitDetached,
                   emitSnapshot, invoked, revoked, dropped>>
    /\ UNCHANGED <<cvars, svars, net, mvars, wsvars, stvars>>
    /\ UNCHANGED lcvars

\* The forEach has no entry left: emit returns.
emitReturns ==
    /\ emitting /\ running = NoListener
    /\ ~HasNext
    /\ emitting' = FALSE
    /\ emitPos' = 0
    /\ emitDetached' = FALSE
    /\ emitSnapshot' = <<>>
    /\ invoked' = {}
    /\ dropped' = {}
    /\ UNCHANGED <<eventListeners, running, bodyOps, revoked>>
    /\ UNCHANGED <<cvars, svars, net, mvars, wsvars, stvars>>
    /\ UNCHANGED lcvars

\* new Map(): no listeners, no delivery.
EdInit ==
    /\ eventListeners = <<>>
    /\ emitting = FALSE
    /\ emitPos = 0
    /\ emitDetached = FALSE
    /\ running = NoListener
    /\ bodyOps = 0
    /\ emitSnapshot = <<>>
    /\ invoked = {}
    /\ revoked = {}
    /\ dropped = {}

\* ------------------------------------------------------- useAuthStore
NoHandle == 0
NoExpiry == 0
\* response.sessionExpiry: absent, or a time 1..MaxExpiry.
Expiries == 0..MaxExpiry

CurrentSession ==
    [handle |-> sessionTimeout, expiry |-> sessionExpiryTime,
     timers |-> pendingTimers]

SetSession(st) ==
    /\ sessionTimeout' = st.handle
    /\ sessionExpiryTime' = st.expiry
    /\ pendingTimers' = st.timers

\* setTimeout returns an id no earlier timer has: the smallest one that is
\* neither pending nor the stored handle.
FreshTimer(st) ==
    LET used == {t.id : t \in st.timers} \cup {st.handle}
    IN  CHOOSE n \in 1..(Cardinality(st.timers) + 2) :
            /\ n \notin used
            /\ \A m \in 1..(n - 1) : m \in used

\* clearSessionTimeout(): clearTimeout on the stored handle, then both
\* fields are set to null; nothing happens when no handle is stored.
clearSessionTimeout(st) ==
    IF st.handle # NoHandle
    THEN [handle |-> NoHandle, expiry |-> NoExpiry,
          timers |-> {t \in st.timers : t.id # st.handle}]
    ELSE st

\* set({ sessionTimeout: null, sessionExpiryTime: null }) on its own.
DropsHandle(st) == [st EXCEPT !.handle = NoHandle, !.expiry = NoExpiry]

\* setupSessionTimeout(expiryTime): a timer is set for an expiry that lies
\* ahead; for one already passed logout() is called at once.
SetupArmsTimer(at, expired) == at # NoExpiry /\ ~expired
SetupCallsLogout(at, expired) == at # NoExpiry /\ expired

setupSessionTimeout(st, at, expired) ==
    LET c == clearSessionTimeout(st)
        id == FreshTimer(st)
    IN  IF SetupArmsTimer(at, expired)
        THEN [handle |-> id, expiry |-> at,
              timers |-> c.timers \cup {[id |-> id, at |-> at]}]
        ELSE c

\* logout(), its session part: clearSessionTimeout(), later
\* set({ ..., sessionTimeout: null, sessionExpiryTime: null }).
LogoutTeardown(st) == DropsHandle(clearSessionTimeout(st))

\* logout() as request() calls it on a 401, up to its first suspension: it
\* returns at once while a logout is running, suspends in
\* apiClient.logout() when a session is held, and otherwise runs to its
\* end, removing the checkpoint and the session timer.
LogoutSetsFlag(called) == called /\ ~isLoggingOut /\ isAuthenticated
LogoutRunsThrough(called) == called /\ ~isLoggingOut /\ ~isAuthenticated

SessionAfterLogout(called) ==
    IF LogoutRunsThrough(called) THEN LogoutTeardown(CurrentSession)
    ELSE CurrentSession

CallLogout(called) ==
    /\ isLoggingOut' = (isLoggingOut \/ LogoutSetsFlag(called))
    /\ logoutAwaiting' = (logoutAwaiting \/ LogoutSetsFlag(called))
    /\ SetSession(SessionAfterLogout(called))
    /\ IF LogoutRunsThrough(called)
       THEN ChannelTeardown(FALSE, FALSE)
       ELSE UNCHANGED <<rtvars, wsClient, retiredOpen>>
    /\ UNCHANGED <<isAuthenticated, isLoading, orphanWatchdogs, pageHidden,
                   syncTimers>>

CheckpointAfterLogout(called) ==
    IF LogoutRunsThrough(called) THEN NoCheckpoint ELSE checkpoint

\* setupSessionTimeout of an expiry that has passed calls logout(): the
\* user has just been set, so it suspends in apiClient.logout() unless a
\* logout is under way.
SetupStartsLogout(at, expired) ==
    /\ isLoggingOut' = (isLoggingOut \/ SetupCallsLogout(at, expired))
    /\ logoutAwaiting' =
          (logoutAwaiting \/ (SetupCallsLogout(at, expired) /\ ~isLoggingOut))

\* useAuthStore.login, successful: the server opens a session and the
\* answer may carry its expiry (X-Session-Expires-At). An expiry that has
\* passed makes setupSessionTimeout call logout(), which suspends in
\* apiClient.logout() before the channel is set up.
login(at, expired) ==
    /\ ~isAuthenticated /\ ~isLoggingOut
    /\ syncTimers < MaxSyncTimers
    /\ isAuthenticated' = TRUE
    /\ srvSession' = TRUE
    /\ SetSession(setupSessionTimeout(CurrentSession, at, expired))
    /\ SetupStartsLogout(at, expired)
    /\ ChannelSetup(CurrentUserId)
    /\ UNCHANGED <<tasks, checkpoint, srv, clock, net, mvars, isLoading,
                   orphanWatchdogs>>

\* useAuthStore.logout, from its start to `await apiClient.logout()`;
\* without a user it has nothing to await and runs to its end.
logout ==
    /\ ~isLoggingOut
    /\ IF isAuthenticated
       THEN /\ isLoggingOut' = TRUE
            /\ logoutAwaiting' = TRUE
            /\ UNCHANGED <<checkpoint, sessionTimeout, sessionExpiryTime,
                           pendingTimers, rtvars, wsClient, retiredOpen>>
       ELSE /\ checkpoint' = NoCheckpoint
            /\ SetSession(LogoutTeardown(CurrentSession))
            /\ ChannelTeardown(FALSE, FALSE)
            /\ UNCHANGED <<isLoggingOut, logoutAwaiting>>
    /\ UNCHANGED <<tasks, isAuthenticated, svars, net, mvars, isLoading,
                   orphanWatchdogs, pageHidden, syncTimers>>

\* The steps of logout() after `await apiClient.logout()`, and "none".
NoFailure == "none"
LogoutSteps == {"server", "leave", "channel", "timer", "checkpoint"}

\* A failing server call is caught where it is awaited, a failing leave in
\* the callback's catch. A throw of resetWebSocketClient() or of
\* clearSessionTimeout() enters logout's catch, which does not clear the
\* session timer. localStorage.removeItem throws in the catch as well.
SkipsTimerClearing(failing) == failing \in {"channel", "timer"}
ReachesFinalSet(failing) == failing # "checkpoint"

SessionAfterTeardown(st, failing) ==
    IF SkipsTimerClearing(failing) THEN DropsHandle(st)
    ELSE IF ReachesFinalSet(failing) THEN LogoutTeardown(st)
    ELSE clearSessionTimeout(st)

\* apiClient.logout() as logout() calls it, with isLoggingOut set: a
\* POST /auth/logout that reaches the server ends the server's session.
SessionAfterLogoutRequest(session) ==
    IF RequestSuppressed(isLoggingOut) THEN session ELSE FALSE

\* useAuthStore.logout, after apiClient.logout() has resolved: the request
\* was suppressed by the isLoggingOut guard, so the server keeps its
\* session. `failing` is the step that throws, if one does.
logoutFinish(failing) ==
    /\ logoutAwaiting
    /\ SkipsTimerClearing(failing) =>
          Cardinality(pendingTimers) <= MaxLeakedTimers
    /\ logoutAwaiting' = FALSE
    /\ ChannelTeardown(TRUE, failing = "channel")
    /\ SetSession(SessionAfterTeardown(CurrentSession, failing))
    /\ IF ReachesFinalSet(failing)
       THEN /\ checkpoint' = NoCheckpoint
            /\ isAuthenticated' = FALSE
            /\ isLoggingOut' = FALSE
       ELSE UNCHANGED <<checkpoint, isAuthenticated, isLoggingOut>>
    /\ srvSession' = SessionAfterLogoutRequest(srvSession)
    /\ UNCHANGED <<tasks, srv, clock, net, mvars, isLoading,
                   orphanWatchdogs, pageHidden, syncTimers>>

\* The session-expiry timer fires: get().logout().
sessionTimerFires(t) ==
    /\ t \in pendingTimers
    /\ LET st == [CurrentSession EXCEPT !.timers = @ \ {t}]
       IN  SetSession(IF LogoutRunsThrough(TRUE) THEN LogoutTeardown(st)
                      ELSE st)
    /\ isLoggingOut' = (isLoggingOut \/ LogoutSetsFlag(TRUE))
    /\ logoutAwaiting' = (logoutAwaiting \/ LogoutSetsFlag(TRUE))
    /\ checkpoint' = CheckpointAfterLogout(TRUE)
    /\ IF LogoutRunsThrough(TRUE)
       THEN ChannelTeardown(FALSE, FALSE)
       ELSE UNCHANGED <<rtvars, wsClient, retiredOpen>>
    /\ UNCHANGED <<tasks, isAuthenticated, svars, net, mvars, isLoading,
                   orphanWatchdogs, pageHidden, syncTimers>>

\* A 401 on '/auth/me' that reaches the caller as error.code.
AuthMeErrCodeKeeps401(status) ==
    IF status \in {200, Suppressed} THEN NoCode ELSE status

\* request('/auth/me'): a 401 is returned as an empty response, with
\* neither data nor error, and logout() is not called.
AuthMeErrCode(status) ==
    IF status \in {200, 401, Suppressed} THEN NoCode ELSE status

AuthKinds == {"refresh", "checkAuth"}

\* request('/auth/me') entered by refreshSession or checkAuth.
requestMe(kind, retry, wd) ==
    IF RequestSuppressed(isLoggingOut)
    THEN [BlankReq EXCEPT !.phase = "answered", !.kind = kind,
                          !.status = Suppressed, !.retry = retry, !.wd = wd]
    ELSE [BlankReq EXCEPT !.kind = kind, !.retry = retry, !.wd = wd]

\* refreshSession(), up to `await apiClient.getCurrentUser()`.
refreshSession ==
    /\ isAuthenticated
    /\ HasFreeSlot
    /\ Put(requestMe("refresh", 0, FALSE))
    /\ UNCHANGED <<cvars, svars, mvars, rtvars, stvars>>
    /\ UNCHANGED lcvars

\* refreshSession(), from the answer to its return; `expired` tells
\* whether the answer's expiry has passed by now.
refreshSessionDone(r, expired) ==
    /\ r.phase = "answered" /\ r.kind = "refresh"
    /\ Take(r)
    /\ IF RequestHasData(r.status)
       THEN /\ isAuthenticated' = TRUE
            /\ SetSession(setupSessionTimeout(CurrentSession, r.expiry,
                                              expired))
            /\ SetupStartsLogout(r.expiry, expired)
       ELSE /\ isAuthenticated' = FALSE
            /\ UNCHANGED <<isLoggingOut, logoutAwaiting, sessionTimeout,
                           sessionExpiryTime, pendingTimers>>
    /\ UNCHANGED <<tasks, checkpoint, svars, mvars, rtvars, isLoading,
                   orphanWatchdogs>>
    /\ UNCHANGED <<wsClient, pageHidden, retiredOpen, syncTimers>>

\* Watchdog timers of checkAuth that are still pending.
Watchdogs ==
    orphanWatchdogs
       + BagCardinality([r \in {q \in Pending : q.wd} |-> net[r]])

\* checkAuth(), up to the first `await apiClient.getCurrentUser()`: it
\* sets isLoading and its 10 s watchdog timer.
checkAuth ==
    /\ ~isLoading /\ ~isLoggingOut
    /\ HasFreeSlot
    /\ Watchdogs < MaxWatchdogs
    /\ isLoading' = TRUE
    /\ Put(requestMe("checkAuth", 0, TRUE))
    /\ UNCHANGED <<cvars, svars, mvars, rtvars, sessionTimeout,
                   sessionExpiryTime, pendingTimers, orphanWatchdogs>>
    /\ UNCHANGED lcvars

\* attemptAuthCheck, from the answer on: success sets up the session
\* timer and leaves the watchdog pending; the `error.code === 401` branch
\* nulls the timer handle without clearing the timer; every other outcome
\* clears the watchdog and is retried once after retryDelay.
checkAuthDone(r, expired) ==
    /\ r.phase = "answered" /\ r.kind = "checkAuth"
    /\ IF RequestHasData(r.status)
       THEN /\ syncTimers < MaxSyncTimers
            /\ Take(r)
            /\ isAuthenticated' = TRUE
            /\ isLoading' = FALSE
            /\ SetSession(setupSessionTimeout(CurrentSession, r.expiry,
                                              expired))
            /\ SetupStartsLogout(r.expiry, expired)
            /\ orphanWatchdogs' = orphanWatchdogs + (IF r.wd THEN 1 ELSE 0)
            /\ ChannelSetup(CurrentUserId)
       ELSE IF AuthMeErrCode(r.status) = 401
       THEN /\ Take(r)
            /\ isAuthenticated' = FALSE
            /\ isLoading' = FALSE
            /\ SetSession(DropsHandle(CurrentSession))
            /\ UNCHANGED <<isLoggingOut, orphanWatchdogs, rtvars, wsClient,
                           retiredOpen, syncTimers, logoutAwaiting>>
       ELSE /\ IF r.retry = 0
               THEN Replace(r, [BlankReq EXCEPT !.phase = "retryWait",
                                    !.kind = "checkAuth", !.retry = 1])
               ELSE Take(r)
            /\ isLoading' = FALSE
            /\ UNCHANGED <<isAuthenticated, isLoggingOut, sessionTimeout,
                           sessionExpiryTime, pendingTimers,
                           orphanWatchdogs, rtvars, wsClient, retiredOpen,
                           syncTimers, logoutAwaiting>>
    /\ UNCHANGED <<tasks, checkpoint, svars, mvars, pageHidden>>

\* checkAuth: retryDelay has elapsed, attemptAuthCheck runs again.
checkAuthRetry(r) ==
    /\ r.phase = "retryWait"
    /\ Replace(r, requestMe("checkAuth", 1, FALSE))
    /\ UNCHANGED <<cvars, svars, mvars, rtvars, stvars>>
    /\ UNCHANGED lcvars

\* The watchdog of a checkAuth call that is still running fires.
watchdogFires(r) ==
    /\ r.wd
    /\ Replace(r, [r EXCEPT !.wd = FALSE])
    /\ isLoading' = FALSE
    /\ isAuthenticated' = FALSE
    /\ UNCHANGED <<tasks, checkpoint, isLoggingOut, svars, mvars, rtvars,
                   sessionTimeout, sessionExpiryTime, pendingTimers,
                   orphanWatchdogs>>
    /\ UNCHANGED lcvars

\* The watchdog of a checkAuth call that has returned fires.
orphanWatchdogFires ==
    /\ orphanWatchdogs > 0
    /\ orphanWatchdogs' = orphanWatchdogs - 1
    /\ isLoading' = FALSE
    /\ isAuthenticated' = FALSE
    /\ UNCHANGED <<tasks, checkpoint, isLoggingOut, svars, net, mvars,
                   rtvars, sessionTimeout, sessionExpiryTime,
                   pendingTimers>>
    /\ UNCHANGED lcvars

\* ------------------------------------------------------- useTaskStore
\* syncTasks(), up to `await apiClient.sync(syncSince)`.
syncTasks ==
    /\ HasFreeSlot
    /\ request("sync", "-", getInitialSyncTimestamp(checkpoint), 0, 0)
    /\ UNCHANGED <<cvars, svars, mvars, rtvars, stvars>>
    /\ UNCHANGED lcvars

\* The timer that login, signup or checkAuth set a second ago fires:
\* useTaskStore.getState().syncTasks().
syncTimerFires ==
    /\ syncTimers > 0
    /\ syncTimers' = syncTimers - 1
    /\ HasFreeSlot
    /\ request("sync", "-", getInitialSyncTimestamp(checkpoint), 0, 0)
    /\ UNCHANGED <<cvars, svars, mvars, rtvars, stvars>>
    /\ UNCHANGED <<wsClient, pageHidden, retiredOpen, logoutAwaiting>>

\* syncTasks(), from the answer of apiClient.sync to its return.
syncTasksDone(r) ==
    /\ r.phase = "answered" /\ r.kind = "sync"
    /\ Take(r)
    /\ CallLogout(RequestCallsLogout(r.status))
    /\ IF RequestHasData(r.status)
       THEN /\ checkpoint' = setLastSyncTimestamp(checkpoint, r)
            /\ IF r.json
               THEN tasks' = applySyncData(tasks, r.items, r.deleted)
               ELSE \* syncData.updatedTasks is undefined: forEach throws
                    UNCHANGED tasks
       ELSE /\ checkpoint' =
                   CheckpointAfterLogout(RequestCallsLogout(r.status))
            /\ UNCHANGED tasks
    /\ UNCHANGED <<svars, mvars>>

\* tasks.map(task => task.id === id ? response.data : task)
ReplaceById(ts, id, rec) ==
    [i \in 1..Len(ts) |-> IF ts[i].id = id THEN rec ELSE ts[i]]

\* The version a writer reads off the local collection.
LocalVersion(ts, id) == ts[FindIndex(ts, id)].version

\* The If-Match header ApiClient.updateTask sets: `if (version)` sends none
\* for an undefined version (0 here).
IfMatchHeader(version) == version

\* The version argument useTaskStore.updateTask passes on: none.
StoreVersionArg(read) == 0

\* useTaskStore.updateTask(id, taskData), up to
\* `await apiClient.updateTask(id, taskData)`; the task views that call it
\* are rendered for an authenticated user only.
updateTask(id) ==
    /\ isAuthenticated
    /\ id \in SeqIds(tasks)
    /\ HasFreeSlot
    /\ request("update", id, 0,
               IfMatchHeader(StoreVersionArg(LocalVersion(tasks, id))),
               LocalVersion(tasks, id))
    /\ UNCHANGED <<cvars, svars, mvars, rtvars, stvars>>
    /\ UNCHANGED lcvars

\* useTaskStore.updateTask, from the answer to its return.
updateTaskDone(r) ==
    /\ r.phase = "answered" /\ r.kind = "update"
    /\ Take(r)
    /\ CallLogout(RequestCallsLogout(r.status))
    /\ checkpoint' = CheckpointAfterLogout(RequestCallsLogout(r.status))
    /\ tasks' = IF RequestHasData(r.status)
                THEN ReplaceById(tasks, r.id, r.items[1])
                ELSE tasks
    /\ UNCHANGED <<svars, mvars>>

\* The store's actions that append the server's answer to the list.
AppendKinds == {"create", "duplicate"}

\* useTaskStore.createTask, up to `await apiClient.createTask(taskData)`.
createTask ==
    /\ isAuthenticated
    /\ HasFreeSlot
    /\ request("create", "-", 0, 0, 0)
    /\ UNCHANGED <<cvars, svars, mvars, rtvars, stvars>>
    /\ UNCHANGED lcvars

\* useTaskStore.duplicateTask(id), up to `await apiClient.duplicateTask(id)`.
duplicateTask(id) ==
    /\ isAuthenticated
    /\ HasFreeSlot
    /\ request("duplicate", id, 0, 0, 0)
    /\ UNCHANGED <<cvars, svars, mvars, rtvars, stvars>>
    /\ UNCHANGED lcvars

\* set({ tasks: [...get().tasks, response.data] })
AppendTask(ts, rec) == Append(ts, rec)

\* createTask and duplicateTask, from the answer to their return.
appendTaskDone(r) ==
    /\ r.phase = "answered" /\ r.kind \in AppendKinds
    /\ Take(r)
    /\ CallLogout(RequestCallsLogout(r.status))
    /\ checkpoint' = CheckpointAfterLogout(RequestCallsLogout(r.status))
    /\ tasks' = IF RequestHasData(r.status)
                THEN AppendTask(tasks, r.items[1])
                ELSE tasks
    /\ UNCHANGED <<svars, mvars>>

\* useUpdateTask().mutateAsync({id, data, version}) as TaskModal.onSubmit
\* calls it: version is what useTask(id) loaded, undefined (0) before it did.
mutateTask(id, version) ==
    /\ isAuthenticated
    /\ HasFreeSlot
    /\ request("mutate", id, 0, IfMatchHeader(version), version)
    /\ UNCHANGED <<cvars, svars, mvars, rtvars, stvars>>
    /\ UNCHANGED lcvars

\* QueryProvider's defaultOptions.mutations.retry: a mutation whose
\* mutationFn rejects is run again this many times.
MutationRetries == 1

\* A mutationFn that rejects when the request did not succeed.
MutationFnRejectsOnError(status) == status \notin {200, Suppressed}

\* useUpdateTask's mutationFn is apiClient.updateTask, which returns what
\* request() returns: request() catches whatever fetch throws and returns
\* an ApiResponse for every status, so the promise never rejects.
MutationFnRejects(status) == FALSE

\* The mutation runs its mutationFn again.
MutationRetried(r) ==
    MutationFnRejects(r.status) /\ r.retry < MutationRetries

\* The request of the second run: request() is entered again.
RetriedWrite(r) ==
    IF RequestSuppressed(isLoggingOut
                            \/ LogoutSetsFlag(RequestCallsLogout(r.status)))
    THEN [BlankReq EXCEPT !.phase = "answered", !.kind = r.kind,
                          !.status = Suppressed, !.retry = r.retry + 1]
    ELSE [BlankReq EXCEPT !.kind = r.kind, !.id = r.id,
                          !.ifMatch = r.ifMatch, !.read = r.read,
                          !.retry = r.retry + 1]

\* useUpdateTask: the mutation settles; only the query cache is touched.
mutateTaskDone(r) ==
    /\ r.phase = "answered" /\ r.kind = "mutate"
    /\ IF MutationRetried(r) THEN Replace(r, RetriedWrite(r)) ELSE Take(r)
    /\ CallLogout(RequestCallsLogout(r.status))
    /\ checkpoint' = CheckpointAfterLogout(RequestCallsLogout(r.status))
    /\ UNCHANGED <<tasks, svars, mvars>>

\* The task load that login schedules: apiClient.getTasks().
loadTasks ==
    /\ HasFreeSlot
    /\ request("list", "-", 0, 0, 0)
    /\ UNCHANGED <<cvars, svars, mvars, rtvars, stvars>>
    /\ UNCHANGED lcvars

\* useTaskStore.setTasks
setTasks(ts, items) == items

\* The task load, from the answer of getTasks to setTasks(items).
loadTasksDone(r) ==
    /\ r.phase = "answered" /\ r.kind = "list"
    /\ Take(r)
    /\ CallLogout(RequestCallsLogout(r.status))
    /\ checkpoint' = CheckpointAfterLogout(RequestCallsLogout(r.status))
    /\ tasks' = IF RequestHasData(r.status) THEN setTasks(tasks, r.items)
                ELSE tasks
    /\ UNCHANGED <<svars, mvars>>

\* ------------------------------------------------- the remote authority
\* Delta endpoint: records changed after `since`, in id order.
DeltaUpdated(since) ==
    LET ids == SelectSeq(IdOrder,
                   LAMBDA i : srv[i].alive /\ srv[i].changedAt > since)
    IN [k \in 1..Len(ids) |-> Task(ids[k], srv[ids[k]].version)]

\* Delta endpoint: ids of the records deleted after `since`.
DeltaDeleted(since) ==
    SelectSeq(IdOrder, LAMBDA i : /\ srv[i].version >= 1
                                  /\ ~srv[i].alive
                                  /\ srv[i].changedAt > since)

\* An answer without a usable body.
Answer(r, status, stale) ==
    Replace(r, [BlankReq EXCEPT !.phase = "answered", !.kind = r.kind,
                                !.status = status, !.stale = stale,
                                !.id = IF r.kind = "mutate" THEN r.id ELSE @,
                                !.ifMatch =
                                   IF r.kind = "mutate" THEN r.ifMatch ELSE @,
                                !.read = IF r.kind = "mutate" THEN r.read
                                         ELSE @,
                                !.retry = r.retry])

\* GET /sync?since=...
srvSync(r) ==
    /\ r.phase = "sent" /\ r.kind = "sync"
    /\ \/ /\ ~srvSession
          /\ Answer(r, 401, FALSE)
       \/ /\ srvSession
          /\ Replace(r, [BlankReq EXCEPT !.phase = "answered",
                            !.kind = "sync",
                            !.status = 200, !.json = TRUE, !.ts = clock,
                            !.items = DeltaUpdated(r.since),
                            !.deleted = DeltaDeleted(r.since)])
    /\ UNCHANGED <<cvars, svars, mvars, rtvars, stvars>>
    /\ UNCHANGED lcvars

\* GET /tasks
srvList(r) ==
    /\ r.phase = "sent" /\ r.kind = "list"
    /\ \/ /\ ~srvSession
          /\ Answer(r, 401, FALSE)
       \/ /\ srvSession
          /\ Replace(r, [BlankReq EXCEPT !.phase = "answered",
                            !.kind = "list",
                            !.status = 200, !.json = TRUE,
                            !.items = DeltaUpdated(OneHourAgo)])
    /\ UNCHANGED <<cvars, svars, mvars, rtvars, stvars>>
    /\ UNCHANGED lcvars

\* POST /tasks and POST /tasks/:id/duplicate: the server stores a record
\* under an id it has not used and answers with it.
srvCreate(r) ==
    /\ r.phase = "sent" /\ r.kind \in AppendKinds
    /\ \/ /\ ~srvSession
          /\ Answer(r, 401, FALSE)
          /\ UNCHANGED <<srv, clock>>
       \/ /\ srvSession /\ r.kind = "duplicate" /\ ~srv[r.id].alive
          /\ Answer(r, 404, FALSE)
          /\ UNCHANGED <<srv, clock>>
       \/ /\ srvSession /\ (r.kind = "duplicate" => srv[r.id].alive)
          /\ clock < MaxClock
          /\ \E new \in Ids :
                /\ srv[new].version = 0
                /\ srv' = [srv EXCEPT ![new] = [version |-> 1, alive |-> TRUE,
                                                changedAt |-> clock + 1]]
                /\ Replace(r, [BlankReq EXCEPT !.phase = "answered",
                                  !.kind = r.kind, !.status = 200,
                                  !.json = TRUE, !.items = <<Task(new, 1)>>])
          /\ clock' = clock + 1
    /\ UNCHANGED <<cvars, srvSession, mvars, rtvars, stvars>>
    /\ UNCHANGED lcvars

\* The writer's copy is out of date: it read a version the record no
\* longer has.
IsStale(r) == r.read # 0 /\ srv[r.id].alive /\ r.read # srv[r.id].version

\* PATCH /tasks/:id. The version held is compared with If-Match when the
\* header is present; without the header the patch is applied.
srvPatch(r) ==
    LET cur == srv[r.id] IN
    /\ r.phase = "sent" /\ r.kind \in Writes
    /\ \/ /\ ~srvSession
          /\ Answer(r, 401, FALSE)
          /\ UNCHANGED <<srv, clock>>
       \/ /\ srvSession /\ ~cur.alive
          /\ Answer(r, 404, FALSE)
          /\ UNCHANGED <<srv, clock>>
       \/ /\ srvSession /\ cur.alive
          /\ r.ifMatch # 0 /\ r.ifMatch # cur.version
          /\ Answer(r, 409, IsStale(r))
          /\ UNCHANGED <<srv, clock>>
       \/ /\ srvSession /\ cur.alive
          /\ r.ifMatch = 0 \/ r.ifMatch = cur.version
          /\ cur.version < MaxVersion /\ clock < MaxClock
          /\ clock' = clock + 1
          /\ srv' = [srv EXCEPT ![r.id].version = cur.version + 1,
                                ![r.id].changedAt = clock + 1]
          /\ Replace(r, [BlankReq EXCEPT !.phase = "answered",
                            !.kind = r.kind,
                            !.id = r.id, !.status = 200, !.json = TRUE,
                            !.stale = IsStale(r), !.applied = TRUE,
                            !.items = <<Task(r.id, cur.version + 1)>>])
    /\ UNCHANGED <<cvars, srvSession, mvars, rtvars, stvars>>
    /\ UNCHANGED lcvars

\* PATCH /tasks/:id rejected as invalid input (400).
srvRejects(r) ==
    /\ r.phase = "sent" /\ r.kind \in Writes
    /\ srvSession /\ srv[r.id].alive
    /\ Answer(r, 400, FALSE)
    /\ UNCHANGED <<cvars, svars, mvars, rtvars, stvars>>
    /\ UNCHANGED lcvars

\* A write fails in the transport: fetch rejects (code 0) or the 10 s abort
\* fires (code 408).
transportFails(r) ==
    /\ r.phase = "sent" /\ r.kind \in Writes
    /\ \/ Answer(r, NetworkError, FALSE)
       \/ Answer(r, TimeoutError, FALSE)
    /\ UNCHANGED <<cvars, svars, mvars, rtvars, stvars>>
    /\ UNCHANGED lcvars

\* A read (delta fetch, task load) fails with an error answer other than
\* 401, a rejected fetch or the 10 s abort: request() returns an error and
\* the caller takes its failure branch, which touches neither the
\* collection nor the checkpoint.
readFails(r) ==
    /\ r.phase = "sent" /\ r.kind \in {"sync", "list"}
    /\ Take(r)
    /\ UNCHANGED <<cvars, svars, mvars, rtvars, stvars>>
    /\ UNCHANGED lcvars

\* A 2xx answer to the delta request whose body is not JSON (an
\* intermediary's page, an unparseable body): request() resolves with
\* data = {}.
garbledAnswer(r) ==
    /\ r.phase = "sent" /\ r.kind = "sync"
    /\ Answer(r, 200, FALSE)
    /\ UNCHANGED <<cvars, svars, mvars, rtvars, stvars>>
    /\ UNCHANGED lcvars

\* Another writer creates, edits or deletes a record on the server.
otherWriter(id) ==
    /\ clock < MaxClock
    /\ clock' = clock + 1
    /\ \/ /\ srv[id].version = 0
          /\ srv' = [srv EXCEPT ![id] = [version |-> 1, alive |-> TRUE,
                                         changedAt |-> clock + 1]]
       \/ /\ srv[id].alive /\ srv[id].version < MaxVersion
          /\ srv' = [srv EXCEPT ![id].version = @ + 1,
                                ![id].changedAt = clock + 1]
       \/ /\ srv[id].alive
          /\ srv' = [srv EXCEPT ![id].alive = FALSE,
                                ![id].changedAt = clock + 1]
    /\ UNCHANGED <<cvars, srvSession, net, mvars, rtvars, stvars>>
    /\ UNCHANGED lcvars

\* GET /auth/me: the user and, in a header or not at all, the session's
\* expiry; 401 without a session.
srvMe(r) ==
    /\ r.phase = "sent" /\ r.kind \in AuthKinds
    /\ \/ /\ ~srvSession
          /\ Replace(r, [r EXCEPT !.phase = "answered", !.status = 401])
       \/ /\ srvSession
          /\ \E at \in Expiries :
                Replace(r, [r EXCEPT !.phase = "answered", !.status = 200,
                                     !.expiry = at])
    /\ UNCHANGED <<cvars, svars, mvars, rtvars, stvars>>
    /\ UNCHANGED lcvars

\* GET /auth/me fails: fetch rejects (code 0) or the 10 s abort (408).
authFails(r) ==
    /\ r.phase = "sent" /\ r.kind \in AuthKinds
    /\ \E code \in {NetworkError, TimeoutError} :
          Replace(r, [r EXCEPT !.phase = "answered", !.status = code])
    /\ UNCHANGED <<cvars, svars, mvars, rtvars, stvars>>
    /\ UNCHANGED lcvars

\* The session expires on the server.
sessionExpires ==
    /\ srvSession
    /\ srvSession' = FALSE
    /\ UNCHANGED <<cvars, srv, clock, net, mvars, rtvars, stvars>>
    /\ UNCHANGED lcvars

\* useAuthStore's initial state: no session timer, not loading.
StInit ==
    /\ sessionTimeout = NoHandle
    /\ sessionExpiryTime = NoExpiry
    /\ pendingTimers = {}
    /\ isLoading = FALSE
    /\ orphanWatchdogs = 0

\* The page is visible, the client of WsInit is the module's wsClient, no
\* sync is scheduled and no logout is under way.
LcInit ==
    /\ wsClient = TRUE
    /\ pageHidden = FALSE
    /\ retiredOpen = 0
    /\ syncTimers = 0
    /\ logoutAwaiting = FALSE

\* ------------------------------------------------------- specifications
\* No call of setupWebSocketHandlers has been made.
HsInit ==
    /\ cleanupFunctions = {}
    /\ wsHandlers = {}
    /\ pendingOn = {}
    /\ setupCalls = 0

\* Some multiple of the refresh interval, in the clock's unit.
REFRESH_INTERVAL == 2

\* Date.now() at mount is far more than one interval after the epoch.
StartTime == 3
MaxNow == 6     \* Date.now() stops here

\* The values of the effect's dependencies isAuthenticated and isLoggingOut.
AuthDeps(authed, loggingOut) == <<authed, loggingOut>>

\* The activity effect as it runs at mount: lastRefreshTime = 0 and
\* activityTimeout = null.
AcInit ==
    /\ now = StartTime
    /\ lastRefreshTime = 0
    /\ activityTimeout = FALSE
    /\ effectDeps = AuthDeps(FALSE, FALSE)
    /\ refreshLog = <<>>

SysInit ==
    /\ tasks = <<>>
    /\ checkpoint = NoCheckpoint
    /\ isAuthenticated = FALSE
    /\ isLoggingOut = FALSE
    /\ srv = [i \in Ids |-> IF i = "a"
                               THEN [version |-> 1, alive |-> TRUE,
                                     changedAt |-> 1]
                               ELSE [version |-> 0, alive |-> FALSE,
                                     changedAt |-> 0]]
    /\ clock = 1
    /\ srvSession = FALSE
    /\ net = EmptyBag
    /\ WsInit
    /\ EdInit
    /\ StInit
    /\ LcInit
    /\ HsInit
    /\ AcInit

Init ==
    /\ SysInit
    /\ mTasks = <<>> /\ mUpd = <<>> /\ mDel = <<>> /\ mOut = <<>>

\* The task store: reconciliation, list load and the store's write path.
\* The login answer carries no session expiry here.
Next ==
    \/ login(NoExpiry, FALSE)
    \/ logout
    \/ logoutFinish(NoFailure)
    \/ syncTasks
    \/ syncTimerFires
    \/ loadTasks
    \/ \E id \in Ids : updateTask(id)
    \/ \E r \in Pending : syncTasksDone(r)
    \/ \E r \in Pending : updateTaskDone(r)
    \/ \E r \in Pending : loadTasksDone(r)
    \/ \E r \in Pending : srvSync(r)
    \/ \E r \in Pending : srvList(r)
    \/ \E r \in Pending : srvPatch(r)
    \/ \E r \in Pending : transportFails(r)
    \/ \E r \in Pending : readFails(r)
    \/ \E r \in Pending : garbledAnswer(r)
    \/ \E id \in Ids : otherWriter(id)
    \/ sessionExpires

Spec == Init /\ [][Next]_vars

\* The write paths: the store's updateTask and the useUpdateTask mutation.
WriteNext ==
    \/ login(NoExpiry, FALSE)
    \/ logout
    \/ logoutFinish(NoFailure)
    \/ loadTasks
    \/ \E id \in Ids : updateTask(id)
    \/ \E id \in Ids : \E v \in 0..srv[id].version :
          srv[id].version >= 1 /\ mutateTask(id, v)
    \/ \E r \in Pending : loadTasksDone(r)
    \/ \E r \in Pending : updateTaskDone(r)
    \/ \E r \in Pending : mutateTaskDone(r)
    \/ \E r \in Pending : srvList(r)
    \/ \E r \in Pending : srvPatch(r)
    \/ \E r \in Pending : srvRejects(r)
    \/ \E r \in Pending : transportFails(r)
    \/ \E r \in Pending : readFails(r)
    \/ \E id \in Ids : otherWriter(id)
    \/ sessionExpires

SpecWrite == Init /\ [][WriteNext]_vars

\* The session lifecycle: authentication, refresh, expiry and teardown.
SessionNext ==
    \/ \E at \in Expiries, expired \in BOOLEAN : login(at, expired)
    \/ logout
    \/ logoutFinish(NoFailure)
    \/ \E t \in pendingTimers : sessionTimerFires(t)
    \/ refreshSession
    \/ \E r \in Pending, expired \in BOOLEAN : refreshSessionDone(r, expired)
    \/ checkAuth
    \/ \E r \in Pending, expired \in BOOLEAN : checkAuthDone(r, expired)
    \/ \E r \in Pending : checkAuthRetry(r)
    \/ \E r \in Pending : watchdogFires(r)
    \/ orphanWatchdogFires
    \/ \E r \in Pending : srvMe(r)
    \/ \E r \in Pending : authFails(r)
    \/ sessionExpires

SpecSession == Init /\ [][SessionNext]_vars

\* The realtime channel client and the calls the stores make on it.
WsNext ==
    \/ wsConnect
    \/ onConnect
    \/ \E reason \in DropReasons : onDisconnect(reason)
    \/ onConnectError
    \/ onStaleConnectError
    \/ reconnectTimerFires
    \/ wsDisconnect
    \/ \E userId \in UserIds : joinUserRoom(userId)
    \/ \E userId \in UserIds : leaveUserRoom(userId)
    \/ heartbeatTick
    \/ pageHides
    \/ pageShows

SpecWs == Init /\ [][WsNext]_vars

\* The channel over the life of a session: the stores set it up at login,
\* the socket's events and timers drive it, logout tears it down.
ChannelNext ==
    \/ login(NoExpiry, FALSE)
    \/ logout
    \/ logoutFinish(NoFailure)
    \/ ensureWebSocketInitialized
    \/ onConnect
    \/ \E reason \in DropReasons : onDisconnect(reason)
    \/ onConnectError
    \/ reconnectTimerFires
    \/ syncTimerFires
    \/ \E r \in Pending : srvSync(r)
    \/ \E r \in Pending : syncTasksDone(r)

SpecChannel == Init /\ [][ChannelNext]_vars

\* Timers that are armed fire, requests sent are answered, and the code
\* that waits for an answer runs once the answer is there.
ChannelFairness ==
    /\ WF_vars(syncTimerFires)
    /\ WF_vars(reconnectTimerFires)
    /\ WF_vars(logoutFinish(NoFailure))
    /\ WF_vars(\E r \in Pending : srvSync(r))
    /\ WF_vars(\E r \in Pending : syncTasksDone(r))

SpecChannelFair == SpecChannel /\ ChannelFairness

\* logout's teardown, where one of its steps may throw.
TeardownNext ==
    \/ \E at \in Expiries : login(at, FALSE)
    \/ logout
    \/ \E failing \in {NoFailure} \cup LogoutSteps : logoutFinish(failing)
    \/ \E t \in pendingTimers : sessionTimerFires(t)
    \/ onConnect
    \/ syncTimerFires
    \/ \E r \in Pending : srvSync(r)
    \/ \E r \in Pending : syncTasksDone(r)

SpecTeardown == Init /\ [][TeardownNext]_vars

\* Records the user creates while the list is being reconciled.
CreateNext ==
    \/ login(NoExpiry, FALSE)
    \/ createTask
    \/ \E id \in Ids : duplicateTask(id)
    \/ syncTasks
    \/ syncTimerFires
    \/ \E r \in Pending : appendTaskDone(r)
    \/ \E r \in Pending : syncTasksDone(r)
    \/ \E r \in Pending : srvCreate(r)
    \/ \E r \in Pending : srvSync(r)

SpecCreate == Init /\ [][CreateNext]_vars

\* The listener registry: registration, unregistration and delivery.
EmitNext ==
    \/ \E l \in Listeners : on(l)
    \/ \E l \in Listeners : unregister(l)
    \/ emit
    \/ invokeNext
    \/ \E l \in Listeners : listenerRegisters(l)
    \/ \E l \in Listeners : listenerUnregisters(l)
    \/ \E threw \in BOOLEAN : listenerEnds(threw)
    \/ emitReturns

SpecEmit == Init /\ [][EmitNext]_vars

\* The delta merge as a function of its inputs.
MergeInit ==
    /\ SysInit
    /\ mTasks \in SeqsUpTo(TaskSet, MaxLocal)
    /\ mUpd \in SeqsUpTo(TaskSet, MaxUpd)
    /\ mDel \in SeqsUpTo(Ids, MaxDel)
    /\ mOut = <<>>

\* First application of the response to the collection.
MergeFirst ==
    /\ mOut = <<>>
    /\ mOut' = <<applySyncData(mTasks, mUpd, mDel)>>
    /\ UNCHANGED <<mTasks, mUpd, mDel, hvars, avars, cvars, svars, net, rtvars, stvars>>
    /\ UNCHANGED lcvars

\* The same response is applied again to the merged collection.
MergeReplay ==
    /\ Len(mOut) = 1
    /\ mOut' = Append(mOut, applySyncData(mOut[1], mUpd, mDel))
    /\ UNCHANGED <<mTasks, mUpd, mDel, hvars, avars, cvars, svars, net, rtvars, stvars>>
    /\ UNCHANGED lcvars

MergeNext == MergeFirst \/ MergeReplay

SpecMerge == MergeInit /\ [][MergeNext]_vars

\* ------------------------------------------------------------ properties
\* The continuation of call r runs in this step.
Delivered(r) == r.phase = "answered" /\ net' = net (-) SetToBag({r})

\* applySyncData throws on the body {}: it has no updatedTasks to iterate.
MergeThrows(r) == ~r.json

\* C1: the persisted checkpoint never moves to an earlier timestamp, under
\* any interleaving of reconciles.
C1_CheckpointMonotone ==
    [][(IsTimestamp(checkpoint) /\ IsTimestamp(checkpoint'))
          => checkpoint' >= checkpoint]_vars

\* C2: the checkpoint advances only once the merge of the response has
\* completed; a reconcile whose merge fails leaves the checkpoint at its old
\* value.
C2_CheckpointOnlyAfterMerge ==
    [][\A r \in Pending :
          (r.kind = "sync" /\ Delivered(r) /\ RequestHasData(r.status)
             /\ MergeThrows(r))
          => checkpoint' = checkpoint]_vars

\* C3: applying a response twice yields the same collection as applying it
\* once.
C3_MergeIdempotent == Len(mOut) = 2 => mOut[2] = mOut[1]

C3_Witness ==
    /\ Len(mOut) = 2
    /\ mOut[1] # mTasks
    /\ \E u \in SeqElems(mUpd) : u \in SeqElems(mOut[2])
    /\ \E x \in SeqElems(mDel) : x \in SeqIds(mTasks)

\* C4: an id that is both in deletedTasks and in updatedTasks of one
\* response is not in the collection after the merge.
C4_DeletionWins ==
    Len(mOut) >= 1 =>
        \A x \in SeqElems(mDel) \cap SeqIds(mUpd) : x \notin SeqIds(mOut[1])

C4_Witness ==
    /\ Len(mOut) >= 1
    /\ \E x \in SeqElems(mDel) \cap SeqIds(mUpd) : x \notin SeqIds(mTasks)
    /\ \E x \in SeqElems(mDel) \cap SeqIds(mUpd) : x \in SeqIds(mTasks)

\* C5: the version of a record held in the local collection never
\* decreases while the record stays in the collection.
C5_VersionNeverDecreases ==
    [][\A i \in 1..Len(tasks) : \A j \in 1..Len(tasks') :
          tasks[i].id = tasks'[j].id
          => tasks'[j].version >= tasks[i].version]_vars

\* C6: a write made from a version the record no longer has is answered to
\* its caller with a conflict (409), never a success, an empty result or
\* another failure.
C6_StaleWriteYieldsConflict ==
    \A r \in Pending :
        (r.phase = "answered" /\ r.kind \in Writes /\ r.stale)
        => RequestErrCode(r.status) = 409

\* C7: every update request sent carries If-Match, set to the version the
\* writer last read.
C7_EveryUpdateCarriesVersion ==
    \A r \in Pending :
        (r.phase = "sent" /\ r.kind \in Writes)
        => (r.ifMatch # 0 /\ r.ifMatch = r.read)

\* C8: a write that was not applied comes back to its caller with an error
\* to branch on: never without data and error both, never with data.
C8_FailedWriteCarriesError ==
    \A r \in Pending :
        (r.phase = "answered" /\ r.kind \in Writes /\ ~r.applied)
        => (RequestErrCode(r.status) # NoCode /\ ~RequestHasData(r.status))

\* syncTasks returns false for call r: the fetch failed, the answer carried
\* no data, or the merge threw.
SyncFails(r) ==
    /\ r.kind = "sync"
    /\ net' = net (-) SetToBag({r})
    /\ \/ r.phase = "sent"
       \/ ~RequestHasData(r.status)
       \/ MergeThrows(r)

\* C9: a reconcile that ends in failure leaves the persisted checkpoint as
\* it was before the attempt.
C9_FailedSyncKeepsCheckpoint ==
    [][\A r \in Pending : SyncFails(r) => checkpoint' = checkpoint]_vars

\* C10: after a successful reconcile with response {U, D, T1}, every record
\* of U whose id is not in D is in the collection as given in U, no id of D
\* is in the collection, records with other ids are unchanged and the
\* checkpoint is T1.
C10_ReconcilePostcondition ==
    [][\A r \in Pending :
          (r.kind = "sync" /\ Delivered(r) /\ RequestHasData(r.status)
             /\ ~MergeThrows(r))
          => LET touched == SeqIds(r.items) \cup SeqElems(r.deleted)
                 Other(t) == t.id \notin touched
             IN /\ \A u \in SeqElems(r.items) :
                      u.id \notin SeqElems(r.deleted)
                      => u \in SeqElems(tasks')
                /\ \A x \in SeqElems(r.deleted) : x \notin SeqIds(tasks')
                /\ SelectSeq(tasks', Other) = SelectSeq(tasks, Other)
                /\ checkpoint' = r.ts]_vars

\* A reconciled state: the checkpoint is the server's time, the collection
\* holds the server's live records and a record deleted there is gone.
C10_Witness ==
    /\ clock > 1
    /\ checkpoint = clock
    /\ tasks # <<>>
    /\ \A i \in 1..Len(tasks) :
          srv[tasks[i].id].alive /\ srv[tasks[i].id].version = tasks[i].version
    /\ \E x \in Ids : srv[x].version >= 1 /\ ~srv[x].alive

\* ---------------------------------------------- realtime channel client
\* The step is the socket's 'connect' event on a socket that was not
\* connected.
ConnectionSucceeds == wsEvent'.op = "connect" /\ wsConnected' /\ ~wsConnected

\* The step is the 'disconnect' event of an established connection that
\* the client did not close itself.
ConnectionDrops == wsEvent'.op = "disconnect" /\ wsConnected /\ ~wsConnected'

\* The step arms the reconnect timer.
ReconnectScheduled ==
    reconnectTimeout'.armed /\ reconnectTimeout' # reconnectTimeout

Count(msgs, m) == Cardinality({i \in 1..Len(msgs) : msgs[i] = m})

\* C11: immediately after every successful connection the reconnection
\* attempt counter is zero, whatever number of failed attempts preceded it.
C11_CounterZeroAfterConnect ==
    [][ConnectionSucceeds => reconnectAttempts' = 0]_vars

\* A connection has just succeeded after the maximum number of failed
\* attempts: the stored timer is the one of the last attempt.
C11_Witness ==
    /\ wsEvent.op = "connect"
    /\ wsConnected
    /\ reconnectAttempts = 0
    /\ reconnectTimeout.handle
    /\ reconnectTimeout.delay = MaxBackoff

\* C12: the n-th consecutive reconnect attempt is scheduled with delay
\* base * 2^(n-1), which never exceeds the delay of the last allowed
\* attempt, and the counter never exceeds maxReconnectAttempts: once it is
\* reached no further reconnect is scheduled.
C12_BackoffDoublesUpToMaximum ==
    [][/\ reconnectAttempts' <= maxReconnectAttempts
       /\ ReconnectScheduled =>
            /\ reconnectAttempts < maxReconnectAttempts
            /\ reconnectAttempts' = reconnectAttempts + 1
            /\ reconnectTimeout'.delay
                  = reconnectDelay * 2^(reconnectAttempts' - 1)
            /\ reconnectTimeout'.delay <= MaxBackoff]_vars

\* The last allowed attempt is scheduled.
C12_Witness ==
    /\ reconnectAttempts = maxReconnectAttempts
    /\ reconnectTimeout.armed
    /\ reconnectTimeout.delay = MaxBackoff

\* C13 as stated: when the peer closes two established connections in a
\* row, the second after the reconnect that followed the first, the delay
\* scheduled for the second reconnect is twice that of the first.
C13_SecondDelayTwiceFirst ==
    Len(dropDelays) = 2 => dropDelays[2] = 2 * dropDelays[1]

\* C13 amended: in that scenario the delay scheduled for the second
\* reconnect equals the delay scheduled for the first, the base delay,
\* because the successful reconnect in between has reset the counter.
C13_SecondDelayEqualsFirst ==
    Len(dropDelays) = 2 =>
        /\ dropDelays[2] = dropDelays[1]
        /\ dropDelays[1] = reconnectDelay

\* The peer has closed two established connections in a row and the
\* second reconnect is scheduled.
C13_Witness ==
    /\ Len(dropDelays) = 2
    /\ wsEvent = Event("disconnect", PeerClosed)
    /\ reconnectTimeout.armed

\* C14: whenever an established connection drops for a reason other than
\* a local disconnect (peer closure, transport close, ping timeout) and
\* attempts remain, a reconnect attempt is scheduled.
C14_DropSchedulesReconnect ==
    [][(ConnectionDrops /\ MayReconnect) =>
          /\ reconnectTimeout'.armed
          /\ reconnectAttempts' = reconnectAttempts + 1]_vars

\* C15: after an intentional disconnect() no reconnect timer is pending and
\* no connection attempt is started until connect() is requested again,
\* whatever channel events arrive after the call.
C15_NoReconnectAfterDisconnect ==
    wsClosed => (~reconnectTimeout.armed /\ wsOpening # "open")

\* C16: every successful connection, reconnections included, sends join
\* requests for the global topic and for the user room of the identity
\* that joined.
C16_RoomsRejoinedOnConnect ==
    [][ConnectionSucceeds =>
          /\ Count(wsEmitted', JoinMsg("global:all")) >= 1
          /\ userRoomJoined # NoRoom =>
                Count(wsEmitted', JoinMsg(userRoomJoined)) >= 1]_vars

Invokes(l) == running = NoListener /\ running' = l

\* C18: a listener whose unregister handle has returned is invoked by no
\* later delivery for the topic, the rest of a delivery under way included.
C18_NoDeliveryAfterUnregister ==
    [][\A l \in Listeners : Invokes(l) => l \notin revoked]_vars

\* A delivery has reached its end without invoking a listener that was
\* registered when it started and was unregistered while it ran.
C18_Witness ==
    /\ emitting /\ running = NoListener /\ ~HasNext
    /\ \E l \in SeqElems(emitSnapshot) :
          /\ l \in revoked /\ l \in dropped
          /\ l \notin invoked
          /\ invoked # {}

\* C19: a delivery invokes the listeners registered when it started and
\* no others: a listener registered during the delivery is not invoked by
\* it, no listener is invoked twice, and every listener of the snapshot
\* that was not unregistered during the delivery has been invoked once
\* when the delivery ends, whether or not listeners threw.
C19_DeliveryIteratesSnapshot ==
    [][/\ \A l \in Listeners :
            Invokes(l) => (l \in SeqElems(emitSnapshot) /\ l \notin invoked)
       /\ (emitting /\ ~emitting') =>
            \A l \in SeqElems(emitSnapshot) :
                l \notin dropped => l \in invoked]_vars


\* An authentication or refresh succeeds and its answer supplies `at` as
\* the session's expiry; `expired` tells whether that time has passed.
AuthSucceeds(at, expired) ==
    \/ login(at, expired)
    \/ \E r \in Pending :
          /\ RequestHasData(r.status)
          /\ r.expiry = at
          /\ (refreshSessionDone(r, expired) \/ checkAuthDone(r, expired))

\* Every pending session-expiry timer is the one whose handle is stored.
OnlyStoredTimerPending ==
    /\ Cardinality(pendingTimers) <= 1
    /\ \A t \in pendingTimers :
          t.id = sessionTimeout /\ t.at = sessionExpiryTime

\* C20: at any time at most one session-expiry timer is pending and it is
\* the one whose handle the store holds, so no step drops the handle of a
\* timer it leaves pending; a successful login, checkAuth or refresh whose
\* answer supplies an expiry that lies ahead leaves exactly the timer for
\* that expiry pending, and one whose expiry has passed leaves none.
C20_OneSessionTimer ==
    [][/\ OnlyStoredTimerPending'
       /\ \A at \in 1..MaxExpiry, expired \in BOOLEAN :
             AuthSucceeds(at, expired) =>
                pendingTimers' =
                   IF expired THEN {}
                   ELSE {[id |-> sessionTimeout', at |-> at]}]_vars

\* A refresh has replaced the timer of the login by one for a new expiry.
C20_Witness ==
    /\ isAuthenticated /\ ~isLoggingOut
    /\ sessionTimeout = 2
    /\ pendingTimers = {[id |-> 2, at |-> MaxExpiry]}


\* What a consumer can read from the client: isConnected().
PublicState == [isConnected |-> wsConnected]

\* A handler calls attemptReconnect with the attempts used up.
GivesUp ==
    /\ ~MayReconnect
    /\ \/ wsEvent'.op = "connect_error"
       \/ /\ wsEvent' = Event("disconnect", PeerClosed)
          /\ ~isDisconnecting

\* C26: the step in which reconnection gives up is observable: it changes
\* what a consumer can read from the client or starts a delivery to the
\* registered listeners.
C26_GiveUpIsObservable ==
    [][GivesUp => (PublicState' # PublicState \/ emitting')]_vars

\* The page's visibility changes in this step.
VisibilityChanges == pageHidden' # pageHidden

\* C30: no keepalive is emitted while the page is hidden, and a change of
\* the page's visibility leaves the connection as it is.
C30_NoHeartbeatWhileHidden ==
    [][/\ (Count(wsEmitted', HeartbeatMsg) > 0 => ~pageHidden')
       /\ (VisibilityChanges =>
              wsConnected' = wsConnected /\ wsOpening' = wsOpening)]_vars

\* logout() returns in this step: its final set() clears isLoggingOut.
LogoutCompletes == isLoggingOut /\ ~isLoggingOut'

\* C22: when logout completes, the checkpoint and the task list are empty.
C22_LogoutEmptiesStore ==
    [][LogoutCompletes =>
          checkpoint' = NoCheckpoint /\ tasks' = <<>>]_vars

\* The sockets that are connected or connecting: that of the module's
\* client, and those of the clients resetWebSocketClient() has dropped.
ActiveConnections ==
    (IF wsClient /\ SocketOpen(CurrentClient) THEN 1 ELSE 0) + retiredOpen

BecameConnected == wsEvent.op = "connect"

\* syncTasks() has called apiClient.sync and the request is on its way.
SyncRequested ==
    \E r \in Pending : r.kind = "sync" /\ r.phase = "sent"

\* A user is logged in and no logout is under way.
InSession == isAuthenticated /\ ~isLoggingOut

BecomesUnauthenticated == isAuthenticated /\ ~isAuthenticated'

\* C23: whenever the store goes from authenticated to unauthenticated, the
\* channel is disconnected, no session timer is pending and the checkpoint
\* is removed.
C23_ExpiryTearsDown ==
    [][BecomesUnauthenticated =>
          /\ ~(wsConnected' \/ wsOpening' = "open")
          /\ pendingTimers' = {}
          /\ checkpoint' = NoCheckpoint]_vars

\* C21: logout ends with the user unauthenticated and its flag cleared
\* whichever step throws, and the steps that did not throw are performed:
\* the client is reset, the session timer cancelled, the checkpoint removed.
C21_LogoutStepsIndependent ==
    [][\A failing \in LogoutSteps :
          logoutFinish(failing) =>
             /\ ~isAuthenticated' /\ ~isLoggingOut'
             /\ (failing # "channel" => ~wsClient')
             /\ (failing # "timer" => pendingTimers' = {})
             /\ (failing # "checkpoint" => checkpoint' = NoCheckpoint)]_vars

\* C27: a logout that completes with the channel connected and the user's
\* room joined emits a leave for that room.
C27_LeaveOnLogout ==
    [][(/\ LogoutCompletes
        /\ wsClient /\ wsConnected
        /\ userRoomJoined = UserRoom(CurrentUserId)) =>
          Count(wsEmitted', LeaveMsg(UserRoom(CurrentUserId))) > 0]_vars

\* Timers that are armed and will fire: the session-expiry timer, the
\* syncs that login and checkAuth scheduled, checkAuth's watchdogs, the
\* client's reconnect timer and its heartbeat interval.
TimersArmed ==
    \/ pendingTimers # {}
    \/ syncTimers > 0
    \/ Watchdogs > 0
    \/ reconnectTimeout.armed
    \/ heartbeatInterval

\* C28: when logout completes no timer of the ended session is armed, so
\* none fires afterwards.
C28_TeardownCancelsTimers ==
    [][LogoutCompletes => ~TimersArmed']_vars

\* Write requests that have been sent to the server and not yet answered
\* for a mutation that has been run before.
Redispatched == {r \in Pending : r.kind \in Writes /\ r.retry > 0}

C40_LeaveCancelsPendingJoin ==
    [][(ConnectionSucceeds /\ userRoomJoined = NoRoom) =>
          Count(wsEmitted', JoinMsg(UserRoom(CurrentUserId))) = 0]_vars

\* The step is the peer closing an established connection.
PeerDrops == ConnectionDrops /\ wsEvent'.arg = PeerClosed

\* C32: the Disconnecting state ends when the channel has closed: a client
\* that connects again is not disconnecting, and a peer closure of that
\* connection is answered by a reconnect attempt while attempts remain.
C32_DisconnectingIsTransient ==
    [][/\ ConnectionSucceeds => ~isDisconnecting'
       /\ (PeerDrops /\ MayReconnect) => reconnectTimeout'.armed]_vars

\* The step is the watchdog of a checkAuth call that has returned firing.
CompletedCheckWatchdogFires == orphanWatchdogs' < orphanWatchdogs

\* C34: the watchdog of a checkAuth call that has completed does not change
\* the authentication state.
C34_WatchdogOnlyWhileChecking ==
    [][CompletedCheckWatchdogFires =>
          isAuthenticated' = isAuthenticated]_vars

\* Requests that have gone out to the network.
SentRequests == {r \in Pending : r.phase = "sent"}

\* C39: while isLoggingOut is set no request goes out and none that has
\* gone out is sent again; logout's own POST /auth/logout does not reach
\* the server either, whose session outlives the logout.
C39_NothingSentWhileLoggingOut ==
    [][/\ isLoggingOut =>
             \A r \in SentRequests' :
                r \in SentRequests /\ CopiesIn(r, net') <= CopiesIn(r, net)
       /\ LogoutCompletes => srvSession' = srvSession]_vars

\* A request issued while a logout is in progress has been answered with an
\* empty result, and the logout has completed with the server's session
\* still open.
C39_Witness ==
    /\ ~isLoggingOut /\ ~isAuthenticated /\ srvSession
    /\ \E r \in Pending : r.phase = "answered" /\ r.status = Suppressed

\* The step is syncTasks() resuming with the server's delta: the server
\* answers GET /sync with a delta only to a client that has logged in.
SyncResponseHandled ==
    \E r \in Pending :
       /\ r.kind = "sync" /\ r.phase = "answered"
       /\ RequestHasData(r.status) /\ r.json
       /\ net' = net (-) SetToBag({r})

\* No user is logged in and no logout is under way.
LoggedOut == ~isAuthenticated /\ ~isLoggingOut

\* C37: a sync answer handled while logged out writes neither the
\* checkpoint nor the task list.
C37_LateSyncDiscarded ==
    [][(SyncResponseHandled /\ LoggedOut) =>
          /\ checkpoint' \in {checkpoint, NoCheckpoint}
          /\ tasks' = tasks]_vars

\* C35: the task list never holds two records with the same id.
C35_IdsUnique ==
    \A i, j \in 1..Len(tasks) : tasks[i].id = tasks[j].id => i = j

\* ------------------------------------------------- whole-record replacement
\* A task as the server returns it, with a content field: the title of a
\* server record is the one of its version. `data` tells whether the object
\* carries the key `data` of a query-cache entry, which no task has.
FullTask(i, v) == [id |-> i, version |-> v, title |-> v, data |-> FALSE]
WholeRecords == {FullTask(i, v) : i \in Ids, v \in 1..MaxVersion}

\* The title a user types into the edit form: not the title of any version.
PatchTitles == {0}

\* useUpdateTask.onMutate, tasks.byId(id) entry: { ...oldData?.data, ...data }
\* with data the mutation's patch.
MergePatch(rec, title) == [rec EXCEPT !.title = title]

\* useUpdateTask.onMutate, list entries: { ...task, ...data } where data is
\* the inner const, the cache entry itself, whose own key is `data`.
MergeCacheEntry(rec) == [rec EXCEPT !.data = TRUE]

\* data.data.items.map(task => task.id === id ? { ...task, ...data } : task)
OptimisticItems(ts, id) ==
    [i \in 1..Len(ts) |-> IF ts[i].id = id THEN MergeCacheEntry(ts[i]) ELSE ts[i]]

\* The entry of tasks.byId(id) among the cached single tasks.
OptimisticById(ts, id, title) ==
    [i \in 1..Len(ts) |-> IF ts[i].id = id THEN MergePatch(ts[i], title) ELSE ts[i]]

UniqueIds(ts) == \A i, j \in 1..Len(ts) : ts[i].id = ts[j].id => i = j

\* mTasks is the task list, mOut the cached single tasks; both hold records
\* the server returned.
ReplaceInit ==
    /\ SysInit
    /\ mTasks \in {ts \in SeqsUpTo(WholeRecords, MaxLocal) : UniqueIds(ts)}
    /\ mOut \in {ts \in SeqsUpTo(WholeRecords, MaxLocal) : UniqueIds(ts)}
    /\ mUpd = <<>>
    /\ mDel = <<>>

\* applySyncData on a delta of server records.
replaceByDelta ==
    /\ \E upd \in SeqsUpTo(WholeRecords, MaxUpd), del \in SeqsUpTo(Ids, 1) :
          mTasks' = applySyncData(mTasks, upd, del)
    /\ UNCHANGED <<mUpd, mDel, hvars, avars, mOut, cvars, svars, net, rtvars, stvars, lcvars>>

\* updateTask's continuation with the record the server answered.
replaceByAnswer ==
    /\ \E rec \in WholeRecords : mTasks' = ReplaceById(mTasks, rec.id, rec)
    /\ UNCHANGED <<mUpd, mDel, hvars, avars, mOut, cvars, svars, net, rtvars, stvars, lcvars>>

\* useUpdateTask.onMutate({ id, data }).
onMutate ==
    /\ \E id \in Ids, title \in PatchTitles :
          /\ mOut' = OptimisticById(mOut, id, title)
          /\ mTasks' = OptimisticItems(mTasks, id)
    /\ UNCHANGED <<mUpd, mDel, hvars, avars, cvars, svars, net, rtvars, stvars, lcvars>>

ReplaceNext == replaceByAnswer \/ onMutate \/ replaceByDelta

SpecReplace == ReplaceInit /\ [][ReplaceNext]_vars

\* C33: every record of the collection, in the list and in the single-task
\* cache, equals one complete record value produced by a single source:
\* no path has merged fields of another object into it.
C33_WholeRecordsOnly ==
    /\ \A i \in 1..Len(mTasks) : mTasks[i] \in WholeRecords
    /\ \A i \in 1..Len(mOut) : mOut[i] \in WholeRecords

\* ------------------------------------------------ setupWebSocketHandlers
MaxSetupCalls == 3

\* Two of the seven event types setupWebSocketHandlers subscribes to; the
\* code for each of them is the same.
HandlerEvents == {"task.created", "task.updated"}

\* The callback that call number k creates for an event: a new closure each
\* time, so Set.add never finds it present.
Handler(e, k) == [event |-> e, call |-> k]

\* cleanupFunctions.forEach(cleanup => cleanup()): each closure deletes its
\* callback from the client's Set.
RunCleanups(handlers, cleanups) == handlers \ cleanups

\* setupWebSocketHandlers(syncTasksFn), its synchronous part: the closures
\* held are run and dropped, and one ensureWebSocketInitialized().then(...)
\* per event is started; none of them has run when the call returns.
setupWebSocketHandlers ==
    /\ setupCalls < MaxSetupCalls
    /\ setupCalls' = setupCalls + 1
    /\ wsHandlers' = RunCleanups(wsHandlers, cleanupFunctions)
    /\ cleanupFunctions' = {}
    /\ pendingOn' = pendingOn \cup
                      {Handler(e, setupCalls + 1) : e \in HandlerEvents}
    /\ UNCHANGED <<mTasks, mUpd, mDel, mOut, avars>>
    /\ UNCHANGED <<cvars, svars, net, rtvars, stvars, lcvars>>

\* A continuation runs: const cleanup = client.on(event, callback);
\* cleanupFunctions.push(cleanup).
handlerRegistered(h) ==
    /\ h \in pendingOn
    /\ pendingOn' = pendingOn \ {h}
    /\ wsHandlers' = wsHandlers \cup {h}
    /\ cleanupFunctions' = cleanupFunctions \cup {h}
    /\ UNCHANGED <<setupCalls, mTasks, mUpd, mDel, mOut, avars>>
    /\ UNCHANGED <<cvars, svars, net, rtvars, stvars, lcvars>>

HandlersNext ==
    \/ setupWebSocketHandlers
    \/ \E e \in HandlerEvents, k \in 1..MaxSetupCalls :
          handlerRegistered(Handler(e, k))

SpecHandlers == Init /\ [][HandlersNext]_vars

\* The callbacks the store has registered for an event type.
HandlersOf(e) == {h \in wsHandlers : h.event = e}

\* C36: whatever the order of setupWebSocketHandlers calls and of their
\* registrations, at most one callback per event type is registered, so a
\* push event runs the re-sync callback at most once.
C36_OneHandlerPerEvent ==
    \A e \in HandlerEvents : Cardinality(HandlersOf(e)) <= 1

\* A login has been followed by a logout that has completed. logout sends
\* nothing to the server (C39), so the server session of the login outlives
\* it: a store that is logged out while that session exists has logged out.
AfterLogout == LoggedOut /\ srvSession

\* C38: once logout has completed and until the next authentication, no
\* socket is connected or connecting.
C38_NoChannelAfterLogout == AfterLogout => ActiveConnections = 0

\* ------------------------------------------- activity-driven session refresh
\* now - lastRefreshTime > REFRESH_INTERVAL
RefreshDue(t, last) == t - last > REFRESH_INTERVAL

\* isAuthenticated && !isLoggingOut, the values the effect ran with.
AuthStillValid(deps) == deps[1] /\ ~deps[2]

\* Time passes.
timePasses ==
    /\ now < MaxNow
    /\ now' = now + 1
    /\ UNCHANGED <<lastRefreshTime, activityTimeout, effectDeps, refreshLog>>
    /\ UNCHANGED <<mTasks, mUpd, mDel, mOut, hvars>>
    /\ UNCHANGED <<cvars, svars, net, rtvars, stvars, lcvars>>

\* A dependency of the activity effect has changed: React runs its cleanup
\* (clearTimeout(activityTimeout)) and the effect again, with a new
\* lastRefreshTime = 0 and activityTimeout = null.
effectReruns ==
    /\ effectDeps # AuthDeps(isAuthenticated, isLoggingOut)
    /\ effectDeps' = AuthDeps(isAuthenticated, isLoggingOut)
    /\ lastRefreshTime' = 0
    /\ activityTimeout' = FALSE
    /\ UNCHANGED <<now, refreshLog>>
    /\ UNCHANGED <<mTasks, mUpd, mDel, mOut, hvars>>
    /\ UNCHANGED <<cvars, svars, net, rtvars, stvars, lcvars>>

\* handleActivity(), past its `if (activityTimeout) return`, on a mousedown,
\* keypress, scroll or touchstart; the effects of the last render have run.
handleActivity ==
    /\ effectDeps = AuthDeps(isAuthenticated, isLoggingOut)
    /\ ~activityTimeout
    /\ activityTimeout' = TRUE
    /\ IF RefreshDue(now, lastRefreshTime) /\ AuthStillValid(effectDeps)
       THEN /\ HasFreeSlot
            /\ Put(requestMe("refresh", 0, FALSE))
            /\ lastRefreshTime' = now
            /\ refreshLog' = Append(refreshLog, now)
       ELSE UNCHANGED <<net, lastRefreshTime, refreshLog>>
    /\ UNCHANGED <<now, effectDeps>>
    /\ UNCHANGED <<mTasks, mUpd, mDel, mOut, hvars>>
    /\ UNCHANGED <<cvars, svars, rtvars, stvars, lcvars>>

\* The 1 s timer of handleActivity fires: activityTimeout = null.
activityTimeoutFires ==
    /\ activityTimeout
    /\ activityTimeout' = FALSE
    /\ UNCHANGED <<now, lastRefreshTime, effectDeps, refreshLog>>
    /\ UNCHANGED <<mTasks, mUpd, mDel, mOut, hvars>>
    /\ UNCHANGED <<cvars, svars, net, rtvars, stvars, lcvars>>

\* The refresh requests stay in flight here: what their answers do to the
\* session is followed in SpecSession.
ActivityNext ==
    \/ login(NoExpiry, FALSE)
    \/ logout
    \/ logoutFinish(NoFailure)
    \/ timePasses
    \/ effectReruns
    \/ handleActivity
    \/ activityTimeoutFires

SpecActivity == Init /\ [][ActivityNext]_vars

\* handleActivity calls refreshSession() in this step.
ActivityRefresh == Len(refreshLog') > Len(refreshLog)

\* C31: an activity signal requests a refresh only while authenticated and
\* not logging out, and no sooner than one refresh interval after the
\* previous refresh an activity signal requested.
C31_RefreshThrottled ==
    [][ActivityRefresh =>
          /\ InSession
          /\ refreshLog # <<>> =>
                now - refreshLog[Len(refreshLog)] >= REFRESH_INTERVAL]_vars

====
